---- MODULE Spec2Model ----
(***************************************************************************)
(* A model of the arithmetic codec of arithmetic_codec.h (a C port of      *)
(* Amir Said's FastAC): the adaptive and static data models and the        *)
(* interval coder with carry propagation and byte-wise renormalisation.    *)
(*                                                                         *)
(* TLC's integers are 32-bit signed, the codec's are 32-bit unsigned, so a *)
(* uint32_t is modelled as a pair <<hi, lo>> of 16-bit limbs and every     *)
(* operation of the code on such a value is done on the limbs, modulo      *)
(* 2^32 as in C.  Quantities the code keeps far below 2^31 (table entries, *)
(* counts, offsets into the buffer) are plain integers.                    *)
(***************************************************************************)
EXTENDS Integers, Sequences, FiniteSets, TLC

(***************************************************************************)
(* uint32_t arithmetic                                                     *)
(***************************************************************************)
W == 65536

\* A statement sequence "v = e; rest" is written Only({ rest : v \in {e} }): e is
\* evaluated once and v names its value in rest.
Only(S) == CHOOSE v \in S : TRUE

Pow2(k) == 2 ^ k

\* the uint32_t with the value n, for 0 <= n < 2^31
U32(n) == << n \div W, n % W >>

\* the integer value of a uint32_t below 2^31
ToInt(a) == a[1] * W + a[2]

FitsInt(a) == a[1] < 32768

Add32(a, b) ==
    LET lo == a[2] + b[2]
    IN  << (a[1] + b[1] + (lo \div W)) % W, lo % W >>

Sub32(a, b) ==
    LET lo == a[2] - b[2]
        borrow == IF lo < 0 THEN 1 ELSE 0
    IN  << (a[1] - b[1] - borrow + W) % W, (lo + W) % W >>

Lt32(a, b) == a[1] < b[1] \/ (a[1] = b[1] /\ a[2] < b[2])

Gt32(a, b) == Lt32(b, a)

\* a >> k, 0 <= k < 32
Shr32(a, k) ==
    IF k >= 16
    THEN << 0, a[1] \div Pow2(k - 16) >>
    ELSE << a[1] \div Pow2(k),
            (a[1] % Pow2(k)) * Pow2(16 - k) + (a[2] \div Pow2(k)) >>

\* a << 8, the bits shifted out of the 32 are lost
Shl8(a) == << (a[1] % 256) * 256 + (a[2] \div 256), (a[2] % 256) * 256 >>

\* (uint8_t)(a >> 24)
TopByte(a) == a[1] \div 256

\* (a << 8) | byte
Shl8Or(a, byte) == << (a[1] % 256) * 256 + (a[2] \div 256), (a[2] % 256) * 256 + byte >>

\* the full 32-bit product of two 16-bit limbs
MulLimb(x, y) ==
    LET p1 == (x \div 256) * y
        p0 == (x % 256) * y
        t  == p0 + (p1 % 256) * 256
    IN  << (p1 \div 256) + (t \div W), t % W >>

\* a * b modulo 2^32
Mul32(a, b) ==
    LET p == MulLimb(a[2], b[2])
    IN  << (p[1] + MulLimb(a[1], b[2])[2] + MulLimb(a[2], b[1])[2]) % W, p[2] >>

\* bit i of a
Bit32(a, i) == IF i >= 16 THEN (a[1] \div Pow2(i - 16)) % 2 ELSE (a[2] \div Pow2(i)) % 2

\* one step of restoring division on a record [q, r]: bit i of a is brought
\* down into the remainder r (33 bits at most: r[1] < 2^17)
DivStep(a, d, i, acc) ==
    LET lo == 2 * acc.r[2] + Bit32(a, i)
        r2 == << 2 * acc.r[1] + (lo \div W), lo % W >>
        l  == r2[2] - d[2]
        ql == 2 * acc.q[2]
        q2 == << (2 * acc.q[1] + (ql \div W)) % W, ql % W >>
    IN  IF Lt32(r2, d)
        THEN [q |-> q2, r |-> r2]
        ELSE [q |-> << q2[1], q2[2] + 1 >>,
              r |-> << r2[1] - d[1] - (IF l < 0 THEN 1 ELSE 0), (l + W) % W >>]

\* the steps for the bits from, from - 1 .. to: upper half, then lower half
RECURSIVE DivBits(_, _, _, _, _)
DivBits(a, d, from, to, acc) ==
    IF from = to THEN DivStep(a, d, from, acc)
    ELSE Only({ DivBits(a, d, ((from + to + 1) \div 2) - 1, to, half) :
                    half \in { DivBits(a, d, from, (from + to + 1) \div 2, acc) } })

\* a / d for d # 0 (unsigned division)
Div32(a, d) ==
    IF FitsInt(a) /\ FitsInt(d)
    THEN U32(ToInt(a) \div ToInt(d))
    ELSE Only({ DivBits(x, y, 31, 0, [q |-> <<0, 0>>, r |-> <<0, 0>>]).q :
                    x \in {a}, y \in {d} })

Zero32 == <<0, 0>>

(***************************************************************************)
(* constants of the code                                                   *)
(***************************************************************************)
AC__MinLength == << 256, 0 >>          \* 0x01000000
AC__MaxLength == << 65535, 65535 >>    \* 0xFFFFFFFF
DM__LengthShift == 15
DM__MaxCount == 32768                  \* 1 << DM__LengthShift


\* single-precision probabilities are modelled on the inputs k / ProbDen, on
\* which every float sum and product of static_model_set_distribution is exact
ProbDen == 1024

(***************************************************************************)
(* Adaptive data model (struct adaptive_model).  distribution,             *)
(* symbol_count and decoder_table are functions on 0..N-1, 0..N-1 and      *)
(* 0..table_size+1; decoder_table is << >> for a model without table       *)
(* (the null pointer of the code).                                         *)
(***************************************************************************)
RECURSIVE TableBits(_, _)
TableBits(n, b) ==
    IF n > Pow2(b + 2) THEN TableBits(n, b + 1) ELSE b

\* Inside the loops that build them the arrays are sequences (element k of the
\* array is element k + 1 of the sequence); AsArray makes the function on 0..n-1.
AsArray(seq) == [k \in 0 .. Len(seq) - 1 |-> seq[k + 1]]

\* a table whose entries are one symbol too high
FillTable_next(table, from, to, v) ==
    SubSeq(table, 1, from + 1)
    \o [i \in 1 .. to - from |-> v + 1]
    \o SubSeq(table, to + 2, Len(table))

\* while (s < w) decoder_table[++s] = v;  the new table, for s = from, w = to
FillTable(table, from, to, v) ==
    SubSeq(table, 1, from + 1)
    \o [i \in 1 .. to - from |-> v]
    \o SubSeq(table, to + 2, Len(table))

\* a halving that rounds down
HalveCounts_floor(symbol_count) ==
    [n \in DOMAIN symbol_count |-> symbol_count[n] \div 2]

\* a halving that leaves the counts as they are
HalveCounts_not(symbol_count) == symbol_count

\* the halving of the counts when total_count exceeds DM__MaxCount
HalveCounts(symbol_count) ==
    [n \in DOMAIN symbol_count |-> (symbol_count[n] + 1) \div 2]

RECURSIVE SumCounts(_, _, _)
SumCounts(symbol_count, lo, hi) ==
    IF hi <= lo THEN 0
    ELSE IF hi = lo + 1 THEN symbol_count[lo]
    ELSE SumCounts(symbol_count, lo, (lo + hi) \div 2)
         + SumCounts(symbol_count, (lo + hi) \div 2, hi)

\* a distribution of half the precision
ScaledSum_coarse(scale, sum) == ToInt(Shr32(Mul32(scale, U32(sum)), 32 - DM__LengthShift))

\* (scale * sum) >> (31 - DM__LengthShift) in 32-bit arithmetic
ScaledSum(scale, sum) == ToInt(Shr32(Mul32(scale, U32(sum)), 31 - DM__LengthShift))

\* one pass of the loop over k of adaptive_model_update, on a record
\* [d, t, sum, s]: the distribution and the table built so far (sequences), the
\* running sum of the counts and the table index s
UpdateStep(m, k, scale, with_table, acc) ==
    LET dk == ScaledSum(scale, acc.sum)
        w  == dk \div Pow2(m.table_shift)
    IN  [d   |-> Append(acc.d, dk),
         sum |-> acc.sum + m.symbol_count[k],
         t   |-> IF with_table /\ acc.s < w
                 THEN FillTable(acc.t, acc.s, w, k - 1) ELSE acc.t,
         s   |-> IF with_table /\ acc.s < w THEN w ELSE acc.s]

\* for (k = lo; k < hi; k++): the passes in order, first half then second half
RECURSIVE UpdateLoop(_, _, _, _, _, _)
UpdateLoop(m, lo, hi, scale, with_table, acc) ==
    IF hi <= lo THEN acc
    ELSE IF hi = lo + 1 THEN UpdateStep(m, lo, scale, with_table, acc)
    ELSE Only({ UpdateLoop(m, (lo + hi) \div 2, hi, scale, with_table, half) :
                    half \in { UpdateLoop(m, lo, (lo + hi) \div 2, scale, with_table, acc) } })

\* a table whose upper entries stop one symbol short of the last
FinishTable_short(table, s, table_size, data_symbols) ==
    AsArray(FillTable(<< 0 >> \o Tail(table), s, table_size + 1, data_symbols - 2))

\* decoder_table[0] = 0; while (s <= table_size) decoder_table[++s] = data_symbols - 1;
FinishTable(table, s, table_size, data_symbols) ==
    AsArray(FillTable(<< 0 >> \o Tail(table), s, table_size + 1, data_symbols - 1))

TableSeq(table) == [i \in 1 .. Cardinality(DOMAIN table) |-> table[i - 1]]

\* if ((total_count += update_cycle) > DM__MaxCount) halve the counts
HalvedCounts(model) ==
    LET bumped == model.total_count + model.update_cycle
        halve  == bumped > DM__MaxCount
        counts == IF halve THEN HalveCounts(model.symbol_count) ELSE model.symbol_count
        total  == IF halve THEN SumCounts(counts, 0, model.data_symbols) ELSE bumped
    IN  [model EXCEPT !.symbol_count = counts, !.total_count = total]

\* a cycle that never grows
NextCycle_same(model) == model.update_cycle

\* a cycle that grows without a cap
NextCycle_free(model) == (5 * model.update_cycle) \div 4

\* update_cycle = (5 * update_cycle) >> 2, capped at (data_symbols + 6) << 3
NextCycle(model) ==
    LET cycle     == (5 * model.update_cycle) \div 4
        max_cycle == (model.data_symbols + 6) * 8
    IN  IF cycle > max_cycle THEN max_cycle ELSE cycle

\* an update that rebuilds the decoder table for the encoder too
adaptive_model_update_table(model, from_encoder) ==
    Only({ Only({ Only({
        [m1 EXCEPT !.distribution = AsArray(r.d),
                   !.decoder_table =
                       IF m1.table_size = 0 THEN @
                       ELSE FinishTable(r.t, r.s, m1.table_size, m1.data_symbols),
                   !.update_cycle = NextCycle(m1),
                   !.symbols_until_update = NextCycle(m1)] :
        r \in { UpdateLoop(m1, 0, m1.data_symbols, scale, m1.table_size # 0,
                           [d |-> << >>, sum |-> 0, s |-> 0,
                            t |-> IF m1.table_size = 0 THEN << >>
                                  ELSE TableSeq(m1.decoder_table)]) } }) :
        scale \in { Div32(<<32768, 0>>, U32(m1.total_count)) } }) :
        m1 \in { HalvedCounts(model) } })

adaptive_model_update(model, from_encoder) ==
    Only({ Only({ Only({
        [m1 EXCEPT !.distribution = AsArray(r.d),
                   !.decoder_table =
                       IF from_encoder \/ m1.table_size = 0 THEN @
                       ELSE FinishTable(r.t, r.s, m1.table_size, m1.data_symbols),
                   !.update_cycle = NextCycle(m1),
                   !.symbols_until_update = NextCycle(m1)] :
        r \in { UpdateLoop(m1, 0, m1.data_symbols, scale,
                           ~ (from_encoder \/ m1.table_size = 0),
                           [d |-> << >>, sum |-> 0, s |-> 0,
                            t |-> IF from_encoder \/ m1.table_size = 0 THEN << >>
                                  ELSE TableSeq(m1.decoder_table)]) } }) :
        scale \in { Div32(<<32768, 0>>, U32(m1.total_count)) } }) :
        m1 \in { HalvedCounts(model) } })

\* a reset that leaves the counts as they are
adaptive_model_reset_counts(model) ==
    IF model.data_symbols = 0 THEN model
    ELSE Only({ [m1 EXCEPT !.symbols_until_update = (model.data_symbols + 6) \div 2,
                           !.update_cycle = (model.data_symbols + 6) \div 2] :
                m1 \in { adaptive_model_update(
                             [model EXCEPT !.total_count = 0,
                                           !.update_cycle = model.data_symbols],
                             FALSE) } })

adaptive_model_reset(model) ==
    IF model.data_symbols = 0 THEN model
    ELSE Only({ [m1 EXCEPT !.symbols_until_update = (model.data_symbols + 6) \div 2,
                           !.update_cycle = (model.data_symbols + 6) \div 2] :
                m1 \in { adaptive_model_update(
                             [model EXCEPT !.total_count = 0,
                                           !.update_cycle = model.data_symbols,
                                           !.symbol_count = [k \in DOMAIN @ |-> 1]],
                             FALSE) } })

\* a change of alphabet that does nothing when the size stays the same
adaptive_model_set_alphabet_same(model, number_of_symbols, junk) ==
    LET n == number_of_symbols
        bits == TableBits(n, 3)
    IN  IF model.data_symbols = n THEN model
        ELSE adaptive_model_reset(
                 [model EXCEPT
                      !.data_symbols = n,
                      !.last_symbol = n - 1,
                      !.table_size = IF n > 16 THEN Pow2(bits) ELSE 0,
                      !.table_shift = IF n > 16 THEN DM__LengthShift - bits ELSE 0,
                      !.distribution = [k \in 0 .. n - 1 |-> junk],
                      !.symbol_count = [k \in 0 .. n - 1 |-> junk],
                      !.decoder_table = IF n > 16
                                        THEN [t \in 0 .. Pow2(bits) + 1 |-> junk]
                                        ELSE << >>])

\* the freshly allocated arrays hold whatever the allocator left there: junk
adaptive_model_set_alphabet(model, number_of_symbols, junk) ==
    LET n == number_of_symbols
        bits == TableBits(n, 3)
        m1 == IF model.data_symbols # n
              THEN [model EXCEPT
                      !.data_symbols = n,
                      !.last_symbol = n - 1,
                      !.table_size = IF n > 16 THEN Pow2(bits) ELSE 0,
                      !.table_shift = IF n > 16 THEN DM__LengthShift - bits ELSE 0,
                      !.distribution = [k \in 0 .. n - 1 |-> junk],
                      !.symbol_count = [k \in 0 .. n - 1 |-> junk],
                      !.decoder_table = IF n > 16
                                        THEN [t \in 0 .. Pow2(bits) + 1 |-> junk]
                                        ELSE << >>]
              ELSE model
    IN  adaptive_model_reset(m1)

adaptive_model_init(number_of_symbols, junk) ==
    adaptive_model_set_alphabet(
        [distribution |-> << >>, symbol_count |-> << >>, decoder_table |-> << >>,
         total_count |-> junk, update_cycle |-> junk, symbols_until_update |-> junk,
         data_symbols |-> 0, last_symbol |-> junk, table_size |-> junk,
         table_shift |-> junk],
        number_of_symbols, junk)

adaptive_model_get_symbol_count(model, symbol) == model.symbol_count[symbol]

(***************************************************************************)
(* Static data model (struct static_model).  probability is a function on  *)
(* 0..N-1 of numerators over ProbDen, or << >> for the null pointer        *)
(* (uniform, p = 1/N: exact for the powers of two N <= ProbDen).           *)
(***************************************************************************)
Prob(number_of_symbols, probability, k) ==
    IF probability = << >> THEN ProbDen \div number_of_symbols ELSE probability[k]

\* the sum of p over the symbols lo .. hi - 1
RECURSIVE ProbSum(_, _, _, _)
ProbSum(number_of_symbols, probability, lo, hi) ==
    IF hi <= lo THEN 0
    ELSE IF hi = lo + 1 THEN Prob(number_of_symbols, probability, lo)
    ELSE ProbSum(number_of_symbols, probability, lo, (lo + hi) \div 2)
         + ProbSum(number_of_symbols, probability, (lo + hi) \div 2, hi)

\* the assertions of static_model_set_distribution: the alphabet size, every
\* p in [0, 1] and 0.9999f <= sum <= 1.001f
StaticAccepted(number_of_symbols, probability) ==
    /\ number_of_symbols > 1 /\ number_of_symbols <= 2048
    /\ \A k \in 0 .. number_of_symbols - 1 :
          Prob(number_of_symbols, probability, k) >= 0
          /\ Prob(number_of_symbols, probability, k) <= ProbDen
    /\ 10000 * ProbSum(number_of_symbols, probability, 0, number_of_symbols) >= 9999 * ProbDen
    /\ 1000 * ProbSum(number_of_symbols, probability, 0, number_of_symbols) <= 1001 * ProbDen

\* one pass of the loop over k of static_model_set_distribution, on a record
\* [d, t, sum, s] as in UpdateStep
StaticStep(n, probability, table_shift, k, acc) ==
    LET dk == (acc.sum * Pow2(DM__LengthShift)) \div ProbDen
        w  == dk \div Pow2(table_shift)
        tb == n > 16
    IN  [d   |-> Append(acc.d, dk),
         sum |-> acc.sum + Prob(n, probability, k),
         t   |-> IF tb /\ acc.s < w
                 THEN FillTable(acc.t, acc.s, w, k - 1) ELSE acc.t,
         s   |-> IF tb /\ acc.s < w THEN w ELSE acc.s]

\* for (k = lo; k < hi; k++): the passes in order, first half then second half
RECURSIVE StaticLoop(_, _, _, _, _, _)
StaticLoop(n, probability, table_shift, lo, hi, acc) ==
    IF hi <= lo THEN acc
    ELSE IF hi = lo + 1 THEN StaticStep(n, probability, table_shift, lo, acc)
    ELSE Only({ StaticLoop(n, probability, table_shift, (lo + hi) \div 2, hi, half) :
                    half \in { StaticLoop(n, probability, table_shift, lo, (lo + hi) \div 2, acc) } })

\* junk is what the freshly allocated table holds
static_model_set_distribution(number_of_symbols, probability, junk) ==
    LET n == number_of_symbols
        bits == TableBits(n, 3)
        table_size == IF n > 16 THEN Pow2(bits) ELSE 0
        table_shift == IF n > 16 THEN DM__LengthShift - bits ELSE 0
    IN  Only({ [distribution |-> AsArray(r.d),
                decoder_table |-> IF n > 16 THEN FinishTable(r.t, r.s, table_size, n)
                                  ELSE << >>,
                data_symbols |-> n, last_symbol |-> n - 1,
                table_size |-> table_size, table_shift |-> table_shift] :
               r \in { StaticLoop(n, probability, table_shift, 0, n,
                           [d |-> << >>, sum |-> 0, s |-> 0,
                            t |-> IF n > 16 THEN [t \in 1 .. table_size + 2 |-> junk]
                                  ELSE << >>]) } })

(***************************************************************************)
(* Arithmetic codec (struct arithmetic_codec).  The bytes code_buffer      *)
(* points to are a sequence buf; ac_pointer is the offset of the pointer   *)
(* from code_buffer, so *ac_pointer is buf[ac_pointer + 1].  An operation  *)
(* works on a record [c, buf, fault, n]: the codec, the buffer's bytes,   *)
(* what went wrong and the number of bytes stored in the session.  What    *)
(* went wrong is "none"; "mode", "no buffer", "argument" or "overflow" for *)
(* a failed assertion; "ub" for an access outside the buffer's block;      *)
(* "freed" for an access to a block that has been freed.  The run is       *)
(* abandoned after any of them.                                            *)
(***************************************************************************)
InBlock(buf, p) == p >= 0 /\ p < Len(buf)

\* for (p = ac_pointer - 1; *p == 0xFF; p--) *p = 0;  ++*p;
RECURSIVE CarryWalk(_, _)
CarryWalk(buf, p) ==
    IF ~ InBlock(buf, p) THEN [buf |-> buf, fault |-> "ub"]
    ELSE IF buf[p + 1] = 255
    THEN Only({ CarryWalk(b, p - 1) : b \in { [buf EXCEPT ![p + 1] = 0] } })
    ELSE [buf |-> [buf EXCEPT ![p + 1] = @ + 1], fault |-> "none"]

\* a carry that goes into the last byte only and is lost if that byte is 0xFF
ac_propagate_carry_short(x) ==
    IF x.fault # "none" THEN x
    ELSE IF ~ InBlock(x.buf, x.c.ac_pointer - 1) THEN [x EXCEPT !.fault = "ub"]
    ELSE [x EXCEPT !.buf[x.c.ac_pointer] = (@ + 1) % 256]

ac_propagate_carry(x) ==
    IF x.fault # "none" THEN x
    ELSE Only({ [x EXCEPT !.buf = r.buf, !.fault = r.fault] :
                r \in { CarryWalk(x.buf, x.c.ac_pointer - 1) } })

\* do { *ac_pointer++ = base >> 24; base <<= 8; } while ((length <<= 8) < AC__MinLength);
RECURSIVE ac_renorm_enc_interval(_)
ac_renorm_enc_interval(x) ==
    IF x.fault # "none" THEN x
    ELSE IF ~ InBlock(x.buf, x.c.ac_pointer) THEN [x EXCEPT !.fault = "ub"]
    ELSE Only({ IF Lt32(y.c.length, AC__MinLength) THEN ac_renorm_enc_interval(y) ELSE y :
                y \in { [x EXCEPT !.buf[x.c.ac_pointer + 1] = TopByte(x.c.base),
                                  !.n = @ + 1,
                                  !.c.ac_pointer = @ + 1,
                                  !.c.base = Shl8(@),
                                  !.c.length = Shl8(@)] } })

\* a decoder that reads *ac_pointer++ in place of *++ac_pointer
RECURSIVE ac_renorm_dec_interval_post(_)
ac_renorm_dec_interval_post(x) ==
    IF x.fault # "none" THEN x
    ELSE IF ~ InBlock(x.buf, x.c.ac_pointer) THEN [x EXCEPT !.fault = "ub"]
    ELSE Only({ IF Lt32(y.c.length, AC__MinLength) THEN ac_renorm_dec_interval_post(y) ELSE y :
                y \in { [x EXCEPT !.c.ac_pointer = @ + 1,
                                  !.c.value = Shl8Or(@, x.buf[x.c.ac_pointer + 1]),
                                  !.c.length = Shl8(@)] } })

\* do { value = (value << 8) | *++ac_pointer; } while ((length <<= 8) < AC__MinLength);
RECURSIVE ac_renorm_dec_interval(_)
ac_renorm_dec_interval(x) ==
    IF x.fault # "none" THEN x
    ELSE IF ~ InBlock(x.buf, x.c.ac_pointer + 1) THEN [x EXCEPT !.fault = "ub"]
    ELSE Only({ IF Lt32(y.c.length, AC__MinLength) THEN ac_renorm_dec_interval(y) ELSE y :
                y \in { [x EXCEPT !.c.ac_pointer = @ + 1,
                                  !.c.value = Shl8Or(@, x.buf[x.c.ac_pointer + 2]),
                                  !.c.length = Shl8(@)] } })

\* if (init_base > base) ac_propagate_carry(codec);
CarryIf(x, init_base) ==
    IF Gt32(init_base, x.c.base) THEN ac_propagate_carry(x) ELSE x

\* if (length < AC__MinLength) ac_renorm_enc_interval(codec);
EncRenorm(x) ==
    IF Lt32(x.c.length, AC__MinLength) THEN ac_renorm_enc_interval(x) ELSE x

\* the carry and the renormalisation that end every encoding function
EncFinish(x, init_base) ==
    Only({ EncRenorm(x1) : x1 \in { CarryIf(x, init_base) } })

\* a decoder that renormalises only below half of AC__MinLength
DecFinish_half(x) ==
    IF Lt32(x.c.length, Shr32(AC__MinLength, 1)) THEN ac_renorm_dec_interval(x) ELSE x

\* if (length < AC__MinLength) ac_renorm_dec_interval(codec);
DecFinish(x) ==
    IF Lt32(x.c.length, AC__MinLength) THEN ac_renorm_dec_interval(x) ELSE x

ac_init(junk32, junk) ==
    [code_buffer |-> "NULL", new_buffer |-> "NULL", ac_pointer |-> junk,
     base |-> junk32, value |-> junk32, length |-> junk32,
     buffer_size |-> 0, mode |-> 0]

\* an ac_start_encoder that keeps the base of the session before
ac_start_encoder_stale(c) ==
    [c EXCEPT !.mode = 1, !.length = AC__MaxLength, !.ac_pointer = 0]

ac_start_encoder(c) ==
    [c EXCEPT !.mode = 1, !.base = Zero32, !.length = AC__MaxLength, !.ac_pointer = 0]

\* an ac_start_decoder that leaves ac_pointer behind the four bytes it read
ac_start_decoder_behind(x) ==
    IF x.buf = << >> THEN [x EXCEPT !.fault = "freed"]
    ELSE IF ~ InBlock(x.buf, 3) THEN [x EXCEPT !.fault = "ub"]
    ELSE [x EXCEPT !.c.mode = 2, !.c.length = AC__MaxLength, !.c.ac_pointer = 4,
                   !.c.value = << x.buf[1] * 256 + x.buf[2], x.buf[3] * 256 + x.buf[4] >>]

\* reads code_buffer[0..3]
ac_start_decoder(x) ==
    IF x.buf = << >> THEN [x EXCEPT !.fault = "freed"]
    ELSE IF ~ InBlock(x.buf, 3) THEN [x EXCEPT !.fault = "ub"]
    ELSE [x EXCEPT !.c.mode = 2, !.c.length = AC__MaxLength, !.c.ac_pointer = 3,
                   !.c.value = << x.buf[1] * 256 + x.buf[2], x.buf[3] * 256 + x.buf[4] >>]

\* an ac_stop_encoder that always takes the branch of the short interval
StopInterval_two(c) ==
    [c EXCEPT !.mode = 0,
              !.base = Add32(@, Shr32(AC__MinLength, 1)),
              !.length = Shr32(AC__MinLength, 9)]

\* an ac_stop_encoder that ends every session with one byte
StopInterval_one(c) ==
    [c EXCEPT !.mode = 0,
              !.base = Add32(@, AC__MinLength),
              !.length = Shr32(AC__MinLength, 1)]

\* an ac_stop_encoder that takes the long offset for every length above AC__MinLength
StopInterval_wide(c) ==
    IF Gt32(c.length, AC__MinLength)
    THEN [c EXCEPT !.mode = 0,
                   !.base = Add32(@, AC__MinLength),
                   !.length = Shr32(AC__MinLength, 1)]
    ELSE [c EXCEPT !.mode = 0,
                   !.base = Add32(@, Shr32(AC__MinLength, 1)),
                   !.length = Shr32(AC__MinLength, 9)]

\* the body of ac_stop_encoder after its mode assertion
StopInterval(c) ==
    IF Gt32(c.length, Add32(AC__MinLength, AC__MinLength))
    THEN [c EXCEPT !.mode = 0,
                   !.base = Add32(@, AC__MinLength),
                   !.length = Shr32(AC__MinLength, 1)]
    ELSE [c EXCEPT !.mode = 0,
                   !.base = Add32(@, Shr32(AC__MinLength, 1)),
                   !.length = Shr32(AC__MinLength, 9)]

\* an ac_stop_encoder that asserts code_bytes < buffer_size
ac_stop_encoder_strict(x) ==
    Only({ IF x3.fault = "none" /\ x3.c.ac_pointer >= x3.c.buffer_size
           THEN [x3 EXCEPT !.fault = "overflow"]
           ELSE x3 :
           x3 \in { ac_renorm_enc_interval(
                       CarryIf([x EXCEPT !.c = StopInterval(@)], x.c.base)) } })

\* the assertion on the byte count comes after the bytes are written
ac_stop_encoder(x) ==
    Only({ IF x3.fault = "none" /\ x3.c.ac_pointer > x3.c.buffer_size
           THEN [x3 EXCEPT !.fault = "overflow"]
           ELSE x3 :
           x3 \in { ac_renorm_enc_interval(
                       CarryIf([x EXCEPT !.c = StopInterval(@)], x.c.base)) } })

\* an ac_stop_decoder that leaves the mode alone
ac_stop_decoder_keep(c) == c

ac_stop_decoder(c) == [c EXCEPT !.mode = 0]

\* an ac_put_bit that moves base by the length it has not yet halved
ac_put_bit_whole(x, bit) ==
    IF bit # 0
    THEN EncFinish([x EXCEPT !.c.length = Shr32(@, 1),
                             !.c.base = Add32(@, x.c.length)], x.c.base)
    ELSE EncRenorm([x EXCEPT !.c.length = Shr32(@, 1)])

ac_put_bit(x, bit) ==
    IF bit # 0
    THEN EncFinish([x EXCEPT !.c.length = Shr32(@, 1),
                             !.c.base = Add32(@, Shr32(x.c.length, 1))], x.c.base)
    ELSE EncRenorm([x EXCEPT !.c.length = Shr32(@, 1)])

\* an ac_get_bit that decodes 1 only for a value above the halved length
ac_get_bit_above(x) ==
    LET len == Shr32(x.c.length, 1)
        bit == IF Gt32(x.c.value, len) THEN 1 ELSE 0
    IN  [x |-> DecFinish([x EXCEPT !.c.length = len,
                                   !.c.value = IF bit = 1 THEN Sub32(@, len) ELSE @]),
         ret |-> bit]

\* ret is the decoded bit
ac_get_bit(x) ==
    LET len == Shr32(x.c.length, 1)
        bit == IF Lt32(x.c.value, len) THEN 0 ELSE 1
    IN  [x |-> DecFinish([x EXCEPT !.c.length = len,
                                   !.c.value = IF bit = 1 THEN Sub32(@, len) ELSE @]),
         ret |-> bit]

ac_put_bits(x, data, number_of_bits) ==
    EncFinish([x EXCEPT !.c.length = Shr32(@, number_of_bits),
                        !.c.base = Add32(@, Mul32(U32(data),
                                                  Shr32(x.c.length, number_of_bits)))],
              x.c.base)

\* an ac_get_bits that does not take the decoded part out of value
ac_get_bits_keep(x, number_of_bits) ==
    LET len == Shr32(x.c.length, number_of_bits)
    IN  IF len = Zero32 THEN [x |-> [x EXCEPT !.fault = "ub"], ret |-> Zero32]
        ELSE Only({ [x |-> DecFinish([x EXCEPT !.c.length = len]), ret |-> s] :
                    s \in { Div32(x.c.value, len) } })

\* ret is the decoded value (as a uint32_t); a zero divisor is undefined
ac_get_bits(x, number_of_bits) ==
    LET len == Shr32(x.c.length, number_of_bits)
    IN  IF len = Zero32 THEN [x |-> [x EXCEPT !.fault = "ub"], ret |-> Zero32]
        ELSE Only({ [x |-> DecFinish([x EXCEPT !.c.length = len,
                                               !.c.value = Sub32(@, Mul32(len, s))]),
                     ret |-> s] :
                    s \in { Div32(x.c.value, len) } })

\* the interval of symbol data in a model: the new base and length
EncodeInterval(c, data, model) ==
    IF data = model.last_symbol
    THEN LET xx == Mul32(U32(model.distribution[data]), Shr32(c.length, DM__LengthShift))
         IN  [c EXCEPT !.base = Add32(@, xx), !.length = Sub32(@, xx)]
    ELSE LET len == Shr32(c.length, DM__LengthShift)
             xx == Mul32(U32(model.distribution[data]), len)
         IN  [c EXCEPT !.base = Add32(@, xx),
                       !.length = Sub32(Mul32(U32(model.distribution[data + 1]), len), xx)]

\* a model that counts the symbols and never rebuilds its distribution
CountSymbol_only(model, s, from_encoder) ==
    [model EXCEPT !.symbol_count[s] = @ + 1, !.symbols_until_update = @ - 1]

\* ++symbol_count[s]; if (--symbols_until_update == 0) adaptive_model_update(...)
\* (a countdown of -1 stands for the 0xFFFFFFFF a decrement of 0 wraps to)
CountSymbol(model, s, from_encoder) ==
    IF model.symbols_until_update = 1
    THEN adaptive_model_update([model EXCEPT !.symbol_count[s] = @ + 1,
                                             !.symbols_until_update = 0], from_encoder)
    ELSE [model EXCEPT !.symbol_count[s] = @ + 1, !.symbols_until_update = @ - 1]

ac_encode_static(x, data, model) ==
    EncFinish([x EXCEPT !.c = EncodeInterval(@, data, model)], x.c.base)

ac_encode_adaptive(x, data, model) ==
    [x |-> ac_encode_static(x, data, model), model |-> CountSymbol(model, data, TRUE)]

\* a decoder that takes the table's lower bound without the bisection
TableSearch_none(model, dv, s, n) == s

\* bisection between the table's bounds: while (n > s + 1) ...
RECURSIVE TableSearch(_, _, _, _)
TableSearch(model, dv, s, n) ==
    IF n > s + 1
    THEN IF Gt32(U32(model.distribution[(s + n) \div 2]), dv)
         THEN TableSearch(model, dv, s, (s + n) \div 2)
         ELSE TableSearch(model, dv, (s + n) \div 2, n)
    ELSE s

\* one pass of the bisection with products, on a record [s, n, x, y]
ProductStep(model, length, value, m, acc) ==
    LET z == Mul32(length, U32(model.distribution[m]))
    IN  IF Gt32(z, value) THEN [acc EXCEPT !.n = m, !.y = z]
                          ELSE [acc EXCEPT !.s = m, !.x = z]

\* do { ... } while ((m = (s + n) >> 1) != s);
RECURSIVE ProductSearch(_, _, _, _, _)
ProductSearch(model, length, value, m, acc) ==
    Only({ IF (a.s + a.n) \div 2 # a.s
           THEN ProductSearch(model, length, value, (a.s + a.n) \div 2, a)
           ELSE a :
           a \in { ProductStep(model, length, value, m, acc) } })

\* the table look-up and the bisection of the decoder: [s, x, y, fault]
TableInterval(c, model, len, dv) ==
    LET t == Shr32(dv, model.table_shift)
    IN  IF ~ (FitsInt(t) /\ ToInt(t) + 1 \in DOMAIN model.decoder_table)
        THEN [s |-> 0, x |-> Zero32, y |-> Zero32, fault |-> "ub"]
        ELSE Only({ [s |-> s,
                     x |-> Mul32(U32(model.distribution[s]), len),
                     y |-> IF s # model.last_symbol
                           THEN Mul32(U32(model.distribution[s + 1]), len)
                           ELSE c.length,
                     fault |-> "none"] :
                    s \in { TableSearch(model, dv, model.decoder_table[ToInt(t)],
                                        model.decoder_table[ToInt(t) + 1] + 1) } })

\* the symbol and its interval [x, y) for the codec's value: [s, x, y, fault]
DecodeInterval(c, model) ==
    LET len == Shr32(c.length, DM__LengthShift)
    IN  IF model.decoder_table # << >>
        THEN IF len = Zero32
             THEN [s |-> 0, x |-> Zero32, y |-> Zero32, fault |-> "ub"]
             ELSE Only({ TableInterval(c, model, len, dv) : dv \in { Div32(c.value, len) } })
        ELSE Only({ [s |-> r.s, x |-> r.x, y |-> r.y, fault |-> "none"] :
                    r \in { ProductSearch(model, len, c.value, model.data_symbols \div 2,
                               [s |-> 0, n |-> model.data_symbols, x |-> Zero32,
                                y |-> c.length]) } })

\* ret is the decoded symbol
ac_decode_static(x, model) ==
    Only({ IF d.fault # "none" THEN [x |-> [x EXCEPT !.fault = d.fault], ret |-> d.s]
           ELSE [x |-> DecFinish([x EXCEPT !.c.value = Sub32(@, d.x),
                                           !.c.length = Sub32(d.y, d.x)]),
                 ret |-> d.s] :
           d \in { DecodeInterval(x.c, model) } })

ac_decode_adaptive(x, model) ==
    Only({ [x |-> r.x, ret |-> r.ret,
            model |-> IF r.x.fault = "none" THEN CountSymbol(model, r.ret, FALSE)
                      ELSE model] :
           r \in { ac_decode_static(x, model) } })


\* ac_set_buffer after its mode assertion, on the codec and the heap mem
\* (the blocks "USER", the caller's array, and "INTERNAL", the codec's own
\* allocation; << >> is a block that is not allocated).  A block that malloc
\* returns holds junk.
ac_set_buffer(c, mem, max_code_bytes, user_buffer, junk) ==
    IF user_buffer # "NULL"
    THEN [c   |-> [c EXCEPT !.buffer_size = max_code_bytes,
                            !.code_buffer = user_buffer,
                            !.new_buffer = "NULL"],
          mem |-> [mem EXCEPT !["INTERNAL"] = << >>]]
    ELSE IF max_code_bytes <= c.buffer_size
    THEN [c |-> c, mem |-> mem]
    ELSE [c   |-> [c EXCEPT !.buffer_size = max_code_bytes,
                            !.new_buffer = "INTERNAL",
                            !.code_buffer = "INTERNAL"],
          mem |-> [mem EXCEPT !["INTERNAL"] = [i \in 1 .. max_code_bytes + 16 |-> junk]]]

ac_get_buffer(c) == c.code_buffer


(***************************************************************************)
(* The program: one codec, one adaptive and one static model, and a caller *)
(* that runs coding sessions the way tests/test.c does (set the buffer,    *)
(* encode, stop, hand the compressed bytes back, reset the model, decode   *)
(* with the operations that were encoded).                                 *)
(***************************************************************************)
VARIABLES
    codec,       \* struct arithmetic_codec
    memory,      \* the bytes of the blocks "USER" and "INTERNAL"
    model,       \* struct adaptive_model
    smodel,      \* struct static_model
    fault,       \* "none", the assertion that failed, "ub" or "freed"
    driver,      \* the caller's program (what it constructs and may encode)
    junk,        \* the byte that fills memory nobody has written yet
    pc,          \* the caller's position
    sent,        \* the operations encoded in this session: <<kind, value, bits>>
    rcvd,        \* the values decoded in this session
    code_bytes,  \* the caller's copy of what ac_stop_encoder returned
    sessions,    \* the sessions completed
    last_call,   \* the function called last
    args,        \* the arguments it was called with, after the codec and the model
    emitted,     \* the bytes the encoder has stored in this session
    twin         \* a second codec, fresh from ac_init, encoding the same operations

vars == << codec, memory, model, smodel, fault, driver, junk, pc, sent, rcvd,
           code_bytes, sessions, last_call, args, emitted, twin >>

\* bounds of the exploration
BufSize == 16
MaxSymbols == 4
MaxLarge == 2
MaxBitsOps == 3
MaxStaticOps == 3
MaxMixedOps == 3
MaxSessions == 2
SmallSize == 2

Ops(kind, values) == { << kind, v, 0 >> : v \in values }

RECURSIVE Script(_, _, _)
Script(kind, values, bits) ==
    IF values = << >> THEN << >>
    ELSE << << kind, Head(values), IF bits = << >> THEN 0 ELSE Head(bits) >> >>
         \o Script(kind, Tail(values), IF bits = << >> THEN << >> ELSE Tail(bits))

\* the data of tests/test.c
RefSymbols == << 0, 0, 15, 15, 15, 15, 3, 3, 2, 1, 15, 15, 15, 15, 15, 0, 0, 0, 8, 3 >>
RefCompressed == << 0, 255, 247, 51, 40, 102, 230, 3, 31 >>
RefData == << 0, 1023, 54, 255, 654, 243, 2346, 5434, 65432, 6565 >>
RefBits == << 1, 10, 6, 8, 10, 8, 12, 14, 16, 14 >>

\* a run of symbols that takes a 17-symbol model through its first rebuild
LongSymbols == << 16, 0, 16, 16, 3, 16, 0, 9, 16, 16, 1 >>

BitsInputs ==
    { << "bit", 1, 1 >>, << "bits", 5, 3 >>, << "bits", 165, 8 >>,
      << "bits", 0, 20 >>, << "bits", 1048575, 20 >> }

\* static models: the alphabet size and the probabilities (numerators over
\* ProbDen; << >> is the null pointer).  The last one fails the sum's assertion.
StaticInputs ==
    { << 2, << >> >>, << 2, AsArray(<< 256, 768 >>) >>, << 3, AsArray(<< 128, 128, 768 >>) >>,
      << 2, AsArray(<< 0, 1024 >>) >>, << 3, AsArray(<< 512, 512, 1 >>) >>,
      << 2, AsArray(<< 512, 256 >>) >> }

\* arguments the assertions of the coding functions refuse: a width of 0 or
\* of 21 bits, data wider than the width, a symbol outside the alphabet
BadWidths == {0, 21}

MisuseInputs ==
    { << "bit", 1, 1 >>, << "bits", 0, 0 >>, << "bits", 0, 21 >>, << "bits", 8, 3 >>,
      << "adaptive", 2, 0 >>, << "static", 2, 0 >> }

MixedInputs ==
    Ops("adaptive", {2}) \cup Ops("static", 0 .. 1)
        \cup { << "bit", 1, 1 >>, << "bits", 255, 8 >> }

Driver(name, n, st, script, free, maxfree, nsessions, misuse) ==
    [name |-> name, N |-> n, static |-> st, script |-> script, free |-> free,
     maxfree |-> maxfree, sessions |-> nsessions, misuse |-> misuse]

\* the callers: what each constructs, the operations it encodes (a script, then
\* up to maxfree operations of its choice), how many sessions it runs and
\* whether it also calls functions in the wrong mode
Drivers ==
    { Driver("adaptive", n, << 2, << >> >>, << >>,
             Ops("adaptive", IF n <= 3 THEN 0 .. n - 1 ELSE {0, 7, n - 1}),
             IF n = 2 THEN MaxSymbols + 3 ELSE IF n = 3 THEN MaxSymbols ELSE MaxSymbols - 1,
             1, FALSE) : n \in {2, 3, 16, 17} }
    \cup
    { Driver("adaptive long", 17, << 2, << >> >>, Script("adaptive", LongSymbols, << >>),
             Ops("adaptive", {0, 8, 16}), MaxLarge, 1, FALSE),
      Driver("adaptive reference", 16, << 2, << >> >>,
             Script("adaptive", RefSymbols, << >>), {}, 0, 1, FALSE),
      Driver("bits reference", 2, << 2, << >> >>, Script("bits", RefData, RefBits),
             {}, 0, 1, FALSE),
      Driver("bits", 2, << 2, << >> >>, << >>, BitsInputs, MaxBitsOps, 1, FALSE),
      Driver("byte", 2, << 256, << >> >>, << >>, Ops("static", 0 .. 255), 1, 1, FALSE),
      Driver("sessions", 2, << 2, AsArray(<< 256, 768 >>) >>,
             << << "adaptive", 1, 0 >>, << "bits", 255, 8 >>, << "static", 0, 0 >> >>,
             {}, 0, MaxSessions, FALSE),
      Driver("carry", 2, << 2, << >> >>,
             << << "bit", 1, 1 >>, << "bits", 0, 20 >> >>,
             { << "bit", 1, 1 >> }, 1, MaxSessions, FALSE),
      Driver("misuse", 2, << 2, << >> >>, << >>, MisuseInputs, 1, 1, TRUE),
      Driver("small", 2, << 2, << >> >>,
             << << "bits", 255, 8 >>, << "bits", 255, 8 >>, << "bits", 165, 8 >> >>,
             { << "bit", 1, 1 >> }, 1, 1, FALSE) }
    \cup
    { Driver("mixed", 3, st, << >>, MixedInputs, MaxMixedOps, 1, FALSE) :
          st \in { << 2, AsArray(<< 256, 768 >>) >>, << 2, AsArray(<< 0, 1024 >>) >> } }
    \cup
    { Driver("static", 2, st, << >>, Ops("static", 0 .. st[1] - 1), MaxStaticOps, 1, FALSE) :
          st \in StaticInputs }

\* what the caller may encode next
Choices ==
    IF Len(sent) < Len(driver.script) THEN { driver.script[Len(sent) + 1] }
    ELSE IF Len(sent) < Len(driver.script) + driver.maxfree THEN driver.free
    ELSE {}

JunkBytes == {0, 255}

NoTwin == [x |-> [c |-> ac_init(Zero32, 0), buf |-> << >>, fault |-> "none", n |-> 0],
           model |-> << >>]

Init ==
    \E d \in { e \in Drivers : StaticAccepted(e.static[1], e.static[2]) }, j \in JunkBytes :
        /\ driver = d
        /\ junk = j
        /\ codec = ac_init(<< 257 * j, 257 * j >>, j)
        /\ memory = [b \in {"NULL", "USER", "INTERNAL"} |->
                        IF b = "USER" THEN [i \in 1 .. BufSize |-> j] ELSE << >>]
        /\ model = adaptive_model_init(d.N, j)
        /\ smodel = static_model_set_distribution(d.static[1], d.static[2], j)
        /\ fault = "none"
        /\ pc = "idle"
        /\ sent = << >>
        /\ rcvd = << >>
        /\ code_bytes = 0
        /\ sessions = 0
        /\ last_call = "ac_init"
        /\ args = << >>
        /\ emitted = 0
        /\ twin = NoTwin

\* the codec with the bytes code_buffer points to
X == [c |-> codec, buf |-> memory[codec.code_buffer], fault |-> "none", n |-> emitted]

Commit(r) ==
    /\ codec' = r.c
    /\ memory' = [memory EXCEPT ![codec.code_buffer] = r.buf]
    /\ fault' = r.fault
    /\ emitted' = r.n

\* a call that fails its assertion after it has reset the interval
Abort_late(name, why) ==
    /\ fault' = why
    /\ last_call' = name
    /\ codec' = [codec EXCEPT !.length = AC__MaxLength]
    /\ args' = << >>
    /\ UNCHANGED << memory, model, smodel, driver, junk, pc, sent, rcvd,
                    code_bytes, sessions, emitted, twin >>

\* a failed assertion aborts the program
Abort(name, why) ==
    /\ fault' = why
    /\ last_call' = name
    /\ args' = << >>
    /\ UNCHANGED << codec, memory, model, smodel, driver, junk, pc, sent, rcvd,
                    code_bytes, sessions, emitted, twin >>

\* a call whose arguments fail an assertion after the symbol has been counted
Reject_late(name, why, a) ==
    /\ fault' = why
    /\ last_call' = name
    /\ args' = a
    /\ model' = [model EXCEPT !.symbols_until_update = @ - 1]
    /\ UNCHANGED << codec, memory, smodel, driver, junk, pc, sent, rcvd,
                    code_bytes, sessions, emitted, twin >>

\* a call whose arguments fail an assertion: a are the arguments
Reject(name, why, a) ==
    /\ fault' = why
    /\ last_call' = name
    /\ args' = a
    /\ UNCHANGED << codec, memory, model, smodel, driver, junk, pc, sent, rcvd,
                    code_bytes, sessions, emitted, twin >>

Live == fault = "none"

CallerVars == << driver, junk >>

(***************************************************************************)
(* Buffer and session control                                              *)
(***************************************************************************)
\* at the start of a session the caller sets its array or asks for an internal
\* buffer; after encoding it hands the compressed bytes back (test.c)
Sizes == IF driver.name = "small" THEN {SmallSize, BufSize} ELSE {BufSize}

SetBufferInputs ==
    IF pc = "idle" THEN { << n, b >> : n \in Sizes, b \in {"USER", "NULL"} }
    ELSE IF pc = "stopped"
    THEN { << code_bytes, ac_get_buffer(codec) >> }
    ELSE {}

ac_set_buffer_call ==
    /\ Live
    /\ \/ /\ codec.mode # 0
          /\ driver.misuse
          /\ Abort("ac_set_buffer", "mode")
       \/ /\ codec.mode = 0
          /\ \E in \in SetBufferInputs :
                LET r == ac_set_buffer(codec, memory, in[1], in[2], junk)
                IN  /\ codec' = r.c
                    /\ memory' = r.mem
                    /\ args' = in
          /\ last_call' = "ac_set_buffer"
          /\ UNCHANGED << model, smodel, fault, pc, sent, rcvd, code_bytes, sessions,
                          emitted, twin, CallerVars >>

adaptive_model_reset_call ==
    /\ Live
    /\ codec.mode = 0
    /\ codec.buffer_size # 0
    /\ pc \in {"idle", "stopped"}
    /\ model' = adaptive_model_reset(model)
    /\ pc' = IF pc = "idle" THEN "ready" ELSE "rewound"
    /\ last_call' = "adaptive_model_reset"
    /\ args' = << >>
    /\ UNCHANGED << codec, memory, smodel, fault, sent, rcvd, code_bytes, sessions,
                    emitted, twin, CallerVars >>

\* the twin: a codec fresh from ac_init with a zeroed internal buffer, started
\* on the same model state
FreshTwin ==
    LET r == ac_set_buffer(ac_init(Zero32, 0),
                           [b \in {"NULL", "USER", "INTERNAL"} |-> << >>],
                           BufSize, "NULL", 0)
    IN  [x |-> [c |-> ac_start_encoder(r.c), buf |-> r.mem["INTERNAL"], fault |-> "none",
                n |-> 0],
         model |-> model]

ac_start_encoder_call ==
    /\ Live
    /\ \/ /\ codec.mode # 0
          /\ driver.misuse
          /\ Abort("ac_start_encoder", "mode")
       \/ /\ codec.mode = 0
          /\ codec.buffer_size = 0
          /\ Abort("ac_start_encoder", "no buffer")
       \/ /\ codec.mode = 0
          /\ codec.buffer_size # 0
          /\ pc = "ready" \/ (pc = "idle" /\ sessions = 0)
          /\ sessions < driver.sessions
          /\ codec' = ac_start_encoder(codec)
          /\ twin' = FreshTwin
          /\ pc' = "enc"
          /\ sent' = << >>
          /\ rcvd' = << >>
          /\ last_call' = "ac_start_encoder"
          /\ args' = << >>
          /\ emitted' = 0
          /\ UNCHANGED << memory, model, smodel, fault, code_bytes, sessions, CallerVars >>

ac_stop_encoder_call ==
    /\ Live
    /\ \/ /\ codec.mode # 1
          /\ driver.misuse
          /\ Abort("ac_stop_encoder", "mode")
       \/ /\ codec.mode = 1
          /\ pc = "enc"
          /\ LET r == ac_stop_encoder(X)
             IN  /\ Commit(r)
                 /\ code_bytes' = r.c.ac_pointer
          /\ twin' = [twin EXCEPT !.x = ac_stop_encoder(@)]
          /\ pc' = "stopped"
          /\ last_call' = "ac_stop_encoder"
          /\ args' = << >>
          /\ UNCHANGED << model, smodel, sent, rcvd, sessions, CallerVars >>

ac_start_decoder_call ==
    /\ Live
    /\ \/ /\ codec.mode # 0
          /\ driver.misuse
          /\ Abort("ac_start_decoder", "mode")
       \/ /\ codec.mode = 0
          /\ codec.buffer_size # 0
          /\ pc = "rewound"
          /\ Commit(ac_start_decoder(X))
          /\ pc' = "dec"
          /\ last_call' = "ac_start_decoder"
          /\ args' = << >>
          /\ UNCHANGED << model, smodel, sent, rcvd, code_bytes, sessions, twin,
                          CallerVars >>

ac_stop_decoder_call ==
    /\ Live
    /\ \/ /\ codec.mode # 2
          /\ driver.misuse
          /\ Abort("ac_stop_decoder", "mode")
       \/ /\ codec.mode = 2
          /\ pc = "dec"
          /\ Len(rcvd) = Len(sent)
          /\ codec' = ac_stop_decoder(codec)
          /\ pc' = "idle"
          /\ sessions' = sessions + 1
          /\ last_call' = "ac_stop_decoder"
          /\ args' = << >>
          /\ UNCHANGED << memory, model, smodel, fault, sent, rcvd, code_bytes, emitted,
                          twin, CallerVars >>

(***************************************************************************)
(* Encoding                                                                *)
(***************************************************************************)
EncodeFrame == << smodel, rcvd, code_bytes, sessions, CallerVars >>

\* the assertions on the arguments of ac_put_bits and of ac_get_bits
GetBitsAccepted(number_of_bits) == number_of_bits > 0 /\ number_of_bits < 21

\* the second assertion with <= in the place of <
PutBitsAccepted_wide(data, number_of_bits) ==
    /\ number_of_bits > 0 /\ number_of_bits < 21
    /\ data <= Pow2(number_of_bits)

PutBitsAccepted(data, number_of_bits) ==
    /\ number_of_bits > 0 /\ number_of_bits < 21
    /\ data < Pow2(number_of_bits)

\* the assertion on the symbol of ac_encode_adaptive and of ac_encode_static
SymbolAccepted(data, data_symbols) == data < data_symbols

ac_put_bit_call ==
    /\ Live
    /\ \/ /\ codec.mode # 1
          /\ driver.misuse
          /\ Abort("ac_put_bit", "mode")
       \/ /\ codec.mode = 1
          /\ pc = "enc"
          /\ \E op \in Choices :
                /\ op[1] = "bit"
                /\ Commit(ac_put_bit(X, op[2]))
                /\ twin' = [twin EXCEPT !.x = ac_put_bit(@, op[2])]
                /\ sent' = Append(sent, op)
                /\ args' = << op[2] >>
          /\ last_call' = "ac_put_bit"
          /\ UNCHANGED << model, pc, EncodeFrame >>

ac_put_bits_call ==
    /\ Live
    /\ \/ /\ codec.mode # 1
          /\ driver.misuse
          /\ Abort("ac_put_bits", "mode")
       \/ /\ codec.mode = 1
          /\ pc = "enc"
          /\ \E op \in Choices :
                /\ op[1] = "bits"
                /\ ~PutBitsAccepted(op[2], op[3])
                /\ Reject("ac_put_bits", "argument", << op[2], op[3] >>)
       \/ /\ codec.mode = 1
          /\ pc = "enc"
          /\ \E op \in Choices :
                /\ op[1] = "bits"
                /\ PutBitsAccepted(op[2], op[3])
                /\ Commit(ac_put_bits(X, op[2], op[3]))
                /\ twin' = [twin EXCEPT !.x = ac_put_bits(@, op[2], op[3])]
                /\ sent' = Append(sent, op)
                /\ args' = << op[2], op[3] >>
          /\ last_call' = "ac_put_bits"
          /\ UNCHANGED << model, pc, EncodeFrame >>

ac_encode_adaptive_call ==
    /\ Live
    /\ \/ /\ codec.mode # 1
          /\ driver.misuse
          /\ Abort("ac_encode_adaptive", "mode")
       \/ /\ codec.mode = 1
          /\ pc = "enc"
          /\ \E op \in Choices :
                /\ op[1] = "adaptive"
                /\ ~SymbolAccepted(op[2], model.data_symbols)
                /\ Reject("ac_encode_adaptive", "argument", << op[2] >>)
       \/ /\ codec.mode = 1
          /\ pc = "enc"
          /\ \E op \in Choices :
                /\ op[1] = "adaptive"
                /\ SymbolAccepted(op[2], model.data_symbols)
                /\ LET r == ac_encode_adaptive(X, op[2], model)
                       t == ac_encode_adaptive(twin.x, op[2], twin.model)
                   IN  /\ Commit(r.x)
                       /\ model' = r.model
                       /\ twin' = [x |-> t.x, model |-> t.model]
                /\ sent' = Append(sent, op)
                /\ args' = << op[2] >>
          /\ last_call' = "ac_encode_adaptive"
          /\ UNCHANGED << pc, EncodeFrame >>

ac_encode_static_call ==
    /\ Live
    /\ \/ /\ codec.mode # 1
          /\ driver.misuse
          /\ Abort("ac_encode_static", "mode")
       \/ /\ codec.mode = 1
          /\ pc = "enc"
          /\ \E op \in Choices :
                /\ op[1] = "static"
                /\ ~SymbolAccepted(op[2], smodel.data_symbols)
                /\ Reject("ac_encode_static", "argument", << op[2] >>)
       \/ /\ codec.mode = 1
          /\ pc = "enc"
          /\ \E op \in Choices :
                /\ op[1] = "static"
                /\ SymbolAccepted(op[2], smodel.data_symbols)
                /\ Commit(ac_encode_static(X, op[2], smodel))
                /\ twin' = [twin EXCEPT !.x = ac_encode_static(@, op[2], smodel)]
                /\ sent' = Append(sent, op)
                /\ args' = << op[2] >>
          /\ last_call' = "ac_encode_static"
          /\ UNCHANGED << model, pc, EncodeFrame >>

(***************************************************************************)
(* Decoding: the caller asks for what it encoded, in the same order        *)
(***************************************************************************)
Expected == IF Len(rcvd) < Len(sent) THEN sent[Len(rcvd) + 1] ELSE << "none", 0, 0 >>

DecodeFrame == << smodel, pc, sent, code_bytes, sessions, twin, CallerVars >>

\* a decoded value as the caller sees it
Value(ret) == IF FitsInt(ret) THEN ToInt(ret) ELSE ret

ac_get_bit_call ==
    /\ Live
    /\ \/ /\ codec.mode # 2
          /\ driver.misuse
          /\ Abort("ac_get_bit", "mode")
       \/ /\ codec.mode = 2
          /\ pc = "dec"
          /\ Expected[1] = "bit"
          /\ LET r == ac_get_bit(X)
             IN  /\ Commit(r.x)
                 /\ rcvd' = Append(rcvd, r.ret)
          /\ last_call' = "ac_get_bit"
          /\ args' = << >>
          /\ UNCHANGED << model, DecodeFrame >>

ac_get_bits_call ==
    /\ Live
    /\ \/ /\ codec.mode # 2
          /\ driver.misuse
          /\ Abort("ac_get_bits", "mode")
       \/ /\ codec.mode = 2
          /\ pc = "dec"
          /\ driver.misuse
          /\ \E number_of_bits \in BadWidths :
                /\ ~GetBitsAccepted(number_of_bits)
                /\ Reject("ac_get_bits", "argument", << number_of_bits >>)
       \/ /\ codec.mode = 2
          /\ pc = "dec"
          /\ Expected[1] = "bits"
          /\ GetBitsAccepted(Expected[3])
          /\ LET r == ac_get_bits(X, Expected[3])
             IN  /\ Commit(r.x)
                 /\ rcvd' = Append(rcvd, Value(r.ret))
          /\ last_call' = "ac_get_bits"
          /\ args' = << Expected[3] >>
          /\ UNCHANGED << model, DecodeFrame >>

ac_decode_adaptive_call ==
    /\ Live
    /\ \/ /\ codec.mode # 2
          /\ driver.misuse
          /\ Abort("ac_decode_adaptive", "mode")
       \/ /\ codec.mode = 2
          /\ pc = "dec"
          /\ Expected[1] = "adaptive"
          /\ LET r == ac_decode_adaptive(X, model)
             IN  /\ Commit(r.x)
                 /\ model' = r.model
                 /\ rcvd' = Append(rcvd, r.ret)
          /\ last_call' = "ac_decode_adaptive"
          /\ args' = << >>
          /\ UNCHANGED DecodeFrame

ac_decode_static_call ==
    /\ Live
    /\ \/ /\ codec.mode # 2
          /\ driver.misuse
          /\ Abort("ac_decode_static", "mode")
       \/ /\ codec.mode = 2
          /\ pc = "dec"
          /\ Expected[1] = "static"
          /\ LET r == ac_decode_static(X, smodel)
             IN  /\ Commit(r.x)
                 /\ rcvd' = Append(rcvd, r.ret)
          /\ last_call' = "ac_decode_static"
          /\ args' = << >>
          /\ UNCHANGED << model, DecodeFrame >>

Next ==
    \/ ac_set_buffer_call
    \/ adaptive_model_reset_call
    \/ ac_start_encoder_call
    \/ ac_stop_encoder_call
    \/ ac_start_decoder_call
    \/ ac_stop_decoder_call
    \/ ac_put_bit_call
    \/ ac_put_bits_call
    \/ ac_encode_adaptive_call
    \/ ac_encode_static_call
    \/ ac_get_bit_call
    \/ ac_get_bits_call
    \/ ac_decode_adaptive_call
    \/ ac_decode_static_call

Spec == Init /\ [][Next]_vars

(***************************************************************************)
(* The adaptive model on its own: models fresh from adaptive_model_init    *)
(* and models that have coded symbols until their next rebuild halves the  *)
(* counts; a caller codes symbols with them, resets them and changes their *)
(* alphabet.                                                               *)
(***************************************************************************)
MaxTotal == 5
MaxUntil == 3

ModelSizes == {2, 3, 16, 17, 32}

\* the symbols the caller codes with a model of n symbols
ModelSymbols(n) == {0, n - 1}

\* total_count grows by update_cycle at every rebuild, and update_cycle by a
\* quarter up to its cap: the last total_count before the rebuild that halves
RECURSIVE LastTotal(_, _, _)
LastTotal(total, cycle, n) ==
    IF total + cycle > DM__MaxCount THEN total
    ELSE IF cycle = (n + 6) * 8
    THEN total + cycle * ((DM__MaxCount - total) \div cycle)
    ELSE LastTotal(total + cycle, NextCycle([update_cycle |-> cycle, data_symbols |-> n]), n)

\* the counts of a model of n symbols that has coded symbol heavy every time
\* (heavy = -1: all symbols equally often) up to a sum of total
LongCounts(n, heavy, total) ==
    [k \in 0 .. n - 1 |->
        IF heavy = -1 THEN (total \div n) + (IF k < total % n THEN 1 ELSE 0)
        ELSE IF k = heavy THEN total - (n - 1) ELSE 1]

\* a model of n symbols after that many symbols: its last rebuild, by the
\* encoder or by the decoder, left total_count at LastTotal, and it has coded
\* symbol 0 since, until more symbols are left before the rebuild that halves
LongRun(n, heavy, until, from_encoder, j) ==
    LET max_cycle == (n + 6) * 8
        total == LastTotal(n, (n + 6) \div 2, n)
        m == adaptive_model_update(
                 [adaptive_model_init(n, j) EXCEPT
                     !.symbol_count = LongCounts(n, heavy, total),
                     !.total_count = total - max_cycle,
                     !.update_cycle = max_cycle],
                 from_encoder)
    IN  [m EXCEPT !.symbol_count[0] = @ + (max_cycle - until),
                  !.symbols_until_update = until]

ModelInputs(j) ==
    { adaptive_model_init(n, j) : n \in ModelSizes }
    \cup { LongRun(n, heavy, until, from_encoder, j) :
               n \in {2, 17}, heavy \in {-1, 0, 1}, until \in 1 .. MaxUntil,
               from_encoder \in BOOLEAN }

ModelInit ==
    \E j \in JunkBytes :
        \E m \in ModelInputs(j) :
            /\ driver = Driver("model", m.data_symbols, << 2, << >> >>, << >>, {}, 0, 0, FALSE)
            /\ junk = j
            /\ codec = ac_init(<< 257 * j, 257 * j >>, j)
            /\ memory = [b \in {"NULL", "USER", "INTERNAL"} |->
                            IF b = "USER" THEN [i \in 1 .. BufSize |-> j] ELSE << >>]
            /\ model = m
            /\ smodel = static_model_set_distribution(2, << >>, j)
            /\ fault = "none"
            /\ pc = "model"
            /\ sent = << >>
            /\ rcvd = << >>
            /\ code_bytes = 0
            /\ sessions = 0
            /\ last_call = "adaptive_model_init"
            /\ args = << >>
            /\ emitted = 0
            /\ twin = NoTwin

ModelFrame == << codec, memory, smodel, fault, pc, sent, rcvd, code_bytes, sessions,
                emitted, twin, CallerVars >>

\* the model's part of ac_encode_adaptive and of ac_decode_adaptive: the symbol
\* is counted, and the distribution rebuilt when the countdown ends
CountSymbol_call ==
    /\ \/ model.total_count < model.data_symbols + MaxTotal
       \/ model.total_count + model.update_cycle > DM__MaxCount
    /\ \E s \in ModelSymbols(model.data_symbols), from_encoder \in BOOLEAN :
          /\ SymbolAccepted(s, model.data_symbols)
          /\ model' = CountSymbol(model, s, from_encoder)
          /\ last_call' = IF from_encoder THEN "ac_encode_adaptive" ELSE "ac_decode_adaptive"
          /\ args' = << s >>
    /\ UNCHANGED ModelFrame

adaptive_model_reset_only ==
    /\ model' = adaptive_model_reset(model)
    /\ last_call' = "adaptive_model_reset"
    /\ args' = << >>
    /\ UNCHANGED ModelFrame

adaptive_model_set_alphabet_call ==
    /\ \E number_of_symbols \in ModelSizes :
          /\ model' = adaptive_model_set_alphabet(model, number_of_symbols, junk)
          /\ args' = << number_of_symbols >>
    /\ last_call' = "adaptive_model_set_alphabet"
    /\ UNCHANGED ModelFrame

ModelNext ==
    \/ CountSymbol_call
    \/ adaptive_model_reset_only
    \/ adaptive_model_set_alphabet_call

ModelSpec == ModelInit /\ [][ModelNext]_vars

(***************************************************************************)
(* A model that goes on coding and is never reset: a fresh model, one      *)
(* symbol coded over and over by the encoder or the decoder.               *)
(***************************************************************************)
MaxCoded == 1100

CadenceSizes == {2, 3, 17}

CadenceInit ==
    \E n \in CadenceSizes :
        \E s \in ModelSymbols(n) :
            /\ driver = Driver("cadence", n, << 2, << >> >>, << >>, {s}, 0, 0, FALSE)
            /\ junk = 0
            /\ codec = ac_init(Zero32, 0)
            /\ memory = [b \in {"NULL", "USER", "INTERNAL"} |->
                            IF b = "USER" THEN [i \in 1 .. BufSize |-> 0] ELSE << >>]
            /\ model = adaptive_model_init(n, 0)
            /\ smodel = static_model_set_distribution(2, << >>, 0)
            /\ fault = "none"
            /\ pc = "cadence"
            /\ sent = << >>
            /\ rcvd = << >>
            /\ code_bytes = 0
            /\ sessions = 0
            /\ last_call = "adaptive_model_init"
            /\ args = << >>
            /\ emitted = 0
            /\ twin = NoTwin

\* the model's part of ac_encode_adaptive and of ac_decode_adaptive, for as
\* long as the caller goes on
CountSymbol_on ==
    /\ pc = "cadence"
    /\ model.total_count < model.data_symbols + MaxCoded
    /\ \E s \in driver.free, from_encoder \in BOOLEAN :
          /\ SymbolAccepted(s, model.data_symbols)
          /\ model' = CountSymbol(model, s, from_encoder)
          /\ last_call' = IF from_encoder THEN "ac_encode_adaptive" ELSE "ac_decode_adaptive"
          /\ args' = << s >>
    /\ UNCHANGED ModelFrame

CadenceNext == CountSymbol_on

\* symbols keep being coded
CadenceSpec == CadenceInit /\ [][CadenceNext]_vars /\ WF_vars(CountSymbol_on)

(***************************************************************************)
(* A decoder on bytes no encoder wrote: the caller fills its array, sets   *)
(* it as the buffer, starts the decoder and decodes with fresh models.     *)
(***************************************************************************)
MaxCorrupt == 7

CorruptSizes == {2, 17, 32}

\* the array: all 0xFF, all 0, FF FF FF FF and then 0, FF 00 FF 00 ...
CorruptStreams ==
    { [i \in 1 .. BufSize |-> 255], [i \in 1 .. BufSize |-> 0],
      [i \in 1 .. BufSize |-> IF i <= 4 THEN 255 ELSE 0],
      [i \in 1 .. BufSize |-> IF i % 2 = 1 THEN 255 ELSE 0] }

\* the calls a run decodes with, the adaptive alphabet and the static model
CorruptRuns ==
    { << {"adaptive"}, n, << 2, << >> >> >> : n \in CorruptSizes }
    \cup { << {"static"}, 2, st >> :
              st \in { << 2, << >> >>, << 256, << >> >>, << 3, AsArray(<< 128, 128, 768 >>) >> } }
    \cup { << {"bits"}, 2, << 2, << >> >> >>,
           << {"adaptive", "static"}, 17, << 256, << >> >> >> }

CorruptWidths == {1, 8, 20}

CorruptInit ==
    \E run \in CorruptRuns, bytes \in CorruptStreams :
        LET r == ac_set_buffer(ac_init(Zero32, 0),
                               [b \in {"NULL", "USER", "INTERNAL"} |->
                                   IF b = "USER" THEN bytes ELSE << >>],
                               BufSize, "USER", 0)
            x == ac_start_decoder([c |-> r.c, buf |-> bytes, fault |-> "none", n |-> 0])
        IN  /\ driver = Driver("corrupt", run[2], run[3], << >>, run[1], MaxCorrupt, 1, FALSE)
            /\ junk = 0
            /\ codec = x.c
            /\ memory = r.mem
            /\ model = adaptive_model_init(run[2], 0)
            /\ smodel = static_model_set_distribution(run[3][1], run[3][2], 0)
            /\ fault = "none"
            /\ pc = "corrupt"
            /\ sent = << >>
            /\ rcvd = << >>
            /\ code_bytes = 0
            /\ sessions = 0
            /\ last_call = "ac_start_decoder"
            /\ args = << >>
            /\ emitted = 0
            /\ twin = NoTwin

CorruptFrame == << pc, sent, code_bytes, sessions, twin, CallerVars >>

\* the next call of the run
CorruptCall(kind) ==
    /\ Live
    /\ pc = "corrupt"
    /\ codec.mode = 2
    /\ kind \in driver.free
    /\ Len(rcvd) < driver.maxfree

ac_decode_adaptive_corrupt ==
    /\ CorruptCall("adaptive")
    /\ LET r == ac_decode_adaptive(X, model)
       IN  /\ Commit(r.x)
           /\ model' = r.model
           /\ rcvd' = Append(rcvd, r.ret)
    /\ last_call' = "ac_decode_adaptive"
    /\ args' = << >>
    /\ UNCHANGED << smodel, CorruptFrame >>

ac_decode_static_corrupt ==
    /\ CorruptCall("static")
    /\ LET r == ac_decode_static(X, smodel)
       IN  /\ Commit(r.x)
           /\ rcvd' = Append(rcvd, r.ret)
    /\ last_call' = "ac_decode_static"
    /\ args' = << >>
    /\ UNCHANGED << model, smodel, CorruptFrame >>

ac_get_bits_corrupt ==
    /\ CorruptCall("bits")
    /\ \E number_of_bits \in CorruptWidths :
          /\ GetBitsAccepted(number_of_bits)
          /\ LET r == ac_get_bits(X, number_of_bits)
             IN  /\ Commit(r.x)
                 /\ rcvd' = Append(rcvd, Value(r.ret))
          /\ args' = << number_of_bits >>
    /\ last_call' = "ac_get_bits"
    /\ UNCHANGED << model, smodel, CorruptFrame >>

CorruptNext ==
    \/ ac_decode_adaptive_corrupt
    \/ ac_decode_static_corrupt
    \/ ac_get_bits_corrupt

CorruptSpec == CorruptInit /\ [][CorruptNext]_vars

(***************************************************************************)
(* A stream decoded twice: the caller has encoded a session the way        *)
(* tests/test.c does, copies the code_bytes bytes that ac_stop_encoder     *)
(* returned into two arrays that hold other bytes behind them, and decodes *)
(* both with the calls that were encoded, each with its codec and its      *)
(* reset model (the second in twin).                                       *)
(***************************************************************************)
MaxTailOps == 3

\* the byte that fills an array behind the stream
TailFills == {0, 128, 255}

\* the sequences of 1 .. n operations out of a set
Runs(ops, n) == UNION { [1 .. k -> ops] : k \in 1 .. n }

\* the last symbol of a 17-symbol model over and over: the top of the interval
TopSymbols == << 16, 16, 16, 16, 16 >>

\* the sessions: the adaptive alphabet, the static model and the operations
TailRuns ==
    { << 2, << 2, << >> >>, s >> : s \in Runs(BitsInputs, MaxTailOps) }
    \cup UNION { { << n, << 2, << >> >>, s >> :
                      s \in Runs(Ops("adaptive", {0, n - 1}), MaxTailOps) } : n \in {2, 17} }
    \cup { << 3, << 2, AsArray(<< 256, 768 >>) >>, s >> : s \in Runs(MixedInputs, MaxTailOps) }
    \cup { << 2, << 256, << >> >>, s >> :
              s \in Runs(Ops("static", {0, 128, 255}), MaxTailOps - 1) }
    \cup { << 17, << 2, << >> >>, Script("adaptive", TopSymbols, << >>) >>,
           << 16, << 2, << >> >>, Script("adaptive", RefSymbols, << >>) >>,
           << 2, << 2, << >> >>, Script("bits", RefData, RefBits) >>,
           << 17, << 2, << >> >>, Script("adaptive", LongSymbols, << >>) >> }

\* one encoding call of the session, on a record [x, model]
EncodeOp(e, op, st) ==
    IF op[1] = "bit" THEN [e EXCEPT !.x = ac_put_bit(@, op[2])]
    ELSE IF op[1] = "bits" THEN [e EXCEPT !.x = ac_put_bits(@, op[2], op[3])]
    ELSE IF op[1] = "static" THEN [e EXCEPT !.x = ac_encode_static(@, op[2], st)]
    ELSE ac_encode_adaptive(e.x, op[2], e.model)

\* the calls i .. last of the session
RECURSIVE EncodeRun(_, _, _, _, _)
EncodeRun(e, ops, st, i, last) ==
    IF i > last THEN e
    ELSE Only({ EncodeRun(e1, ops, st, i + 1, last) : e1 \in { EncodeOp(e, ops[i], st) } })

\* a codec fresh from ac_init, started as an encoder on an array of BufSize
\* bytes, and a fresh adaptive model of n symbols
Begin(n) ==
    LET r == ac_set_buffer(ac_init(Zero32, 0),
                           [b \in {"NULL", "USER", "INTERNAL"} |->
                               IF b = "USER" THEN [i \in 1 .. BufSize |-> 0] ELSE << >>],
                           BufSize, "USER", 0)
    IN  [x |-> [c |-> ac_start_encoder(r.c), buf |-> r.mem["USER"],
                fault |-> "none", n |-> 0],
         model |-> adaptive_model_init(n, 0)]

\* the whole session: the calls, then ac_stop_encoder
Session(n, st, ops) ==
    Only({ [e EXCEPT !.x = ac_stop_encoder(@)] :
           e \in { EncodeRun(Begin(n), ops, static_model_set_distribution(st[1], st[2], 0),
                             1, Len(ops)) } })

\* an array of BufSize bytes: the stream, then the fill
Behind(buf, count, fill) == [i \in 1 .. BufSize |-> IF i <= count THEN buf[i] ELSE fill]

\* ac_set_buffer(count, array) and ac_start_decoder on the codec that encoded
Restart(c, bytes, count) ==
    LET r == ac_set_buffer(c, [b \in {"NULL", "USER", "INTERNAL"} |->
                                  IF b = "USER" THEN bytes ELSE << >>],
                           count, "USER", 0)
    IN  ac_start_decoder([c |-> r.c, buf |-> bytes, fault |-> "none", n |-> 0])

TailInit ==
    \E run \in TailRuns, fill \in TailFills \X TailFills :
        \E e \in { Session(run[1], run[2], run[3]) } :
            /\ fill[1] < fill[2]
            /\ e.x.fault = "none"
            /\ driver = Driver("tail", run[1], run[2], run[3], {}, 0, 1, FALSE)
            /\ junk = fill[1]
            /\ codec = Restart(e.x.c, Behind(e.x.buf, e.x.c.ac_pointer, fill[1]),
                               e.x.c.ac_pointer).c
            /\ memory = [b \in {"NULL", "USER", "INTERNAL"} |->
                            IF b = "USER" THEN Behind(e.x.buf, e.x.c.ac_pointer, fill[1])
                            ELSE << >>]
            /\ model = adaptive_model_reset(e.model)
            /\ smodel = static_model_set_distribution(run[2][1], run[2][2], 0)
            /\ fault = "none"
            /\ pc = "tail"
            /\ sent = run[3]
            /\ rcvd = << >>
            /\ code_bytes = e.x.c.ac_pointer
            /\ sessions = 0
            /\ last_call = "ac_start_decoder"
            /\ args = << >>
            /\ emitted = e.x.n
            /\ twin = [x |-> Restart(e.x.c, Behind(e.x.buf, e.x.c.ac_pointer, fill[2]),
                                     e.x.c.ac_pointer),
                       model |-> adaptive_model_reset(e.model),
                       rcvd |-> << >>]

TailFrame == << smodel, pc, sent, code_bytes, sessions, CallerVars >>

\* the next call of both decoders
TailCall(kind) ==
    /\ Live
    /\ twin.x.fault = "none"
    /\ pc = "tail"
    /\ codec.mode = 2
    /\ Expected[1] = kind

ac_get_bit_tail ==
    /\ TailCall("bit")
    /\ LET r == ac_get_bit(X)
           t == ac_get_bit(twin.x)
       IN  /\ Commit(r.x)
           /\ rcvd' = Append(rcvd, r.ret)
           /\ twin' = [twin EXCEPT !.x = t.x, !.rcvd = Append(@, t.ret)]
    /\ last_call' = "ac_get_bit"
    /\ args' = << >>
    /\ UNCHANGED << model, TailFrame >>

ac_get_bits_tail ==
    /\ TailCall("bits")
    /\ GetBitsAccepted(Expected[3])
    /\ LET r == ac_get_bits(X, Expected[3])
           t == ac_get_bits(twin.x, Expected[3])
       IN  /\ Commit(r.x)
           /\ rcvd' = Append(rcvd, Value(r.ret))
           /\ twin' = [twin EXCEPT !.x = t.x, !.rcvd = Append(@, Value(t.ret))]
    /\ last_call' = "ac_get_bits"
    /\ args' = << Expected[3] >>
    /\ UNCHANGED << model, TailFrame >>

ac_decode_adaptive_tail ==
    /\ TailCall("adaptive")
    /\ LET r == ac_decode_adaptive(X, model)
           t == ac_decode_adaptive(twin.x, twin.model)
       IN  /\ Commit(r.x)
           /\ model' = r.model
           /\ rcvd' = Append(rcvd, r.ret)
           /\ twin' = [x |-> t.x, model |-> t.model, rcvd |-> Append(twin.rcvd, t.ret)]
    /\ last_call' = "ac_decode_adaptive"
    /\ args' = << >>
    /\ UNCHANGED TailFrame

ac_decode_static_tail ==
    /\ TailCall("static")
    /\ LET r == ac_decode_static(X, smodel)
           t == ac_decode_static(twin.x, smodel)
       IN  /\ Commit(r.x)
           /\ rcvd' = Append(rcvd, r.ret)
           /\ twin' = [twin EXCEPT !.x = t.x, !.rcvd = Append(@, t.ret)]
    /\ last_call' = "ac_decode_static"
    /\ args' = << >>
    /\ UNCHANGED << model, TailFrame >>

TailNext ==
    \/ ac_get_bit_tail
    \/ ac_get_bits_tail
    \/ ac_decode_adaptive_tail
    \/ ac_decode_static_tail

TailSpec == TailInit /\ [][TailNext]_vars

(***************************************************************************)
(* Raw bits alone: a codec fresh from ac_init either encodes bits into the *)
(* caller's array or decodes bits from an array the caller has filled, one *)
(* bit at a time (ac_put_bit, ac_get_bit) or several (ac_put_bits,         *)
(* ac_get_bits).                                                           *)
(***************************************************************************)
MaxBitCalls == 4

BitWidths == {1, 2, 7}

\* the array a decoder is started on: four bytes, then what fills the rest
BitStreams ==
    { [i \in 1 .. BufSize |-> IF i <= 4 THEN head[i] ELSE fill] :
          head \in { << 0, 0, 0, 0 >>, << 127, 255, 255, 255 >>, << 128, 0, 0, 0 >>,
                     << 255, 255, 255, 254 >>, << 255, 255, 255, 255 >> },
          fill \in {0, 255} }

BitInit ==
    \E bytes \in BitStreams, decoding \in BOOLEAN :
        LET r == ac_set_buffer(ac_init(Zero32, 0),
                               [b \in {"NULL", "USER", "INTERNAL"} |->
                                   IF b = "USER" THEN bytes ELSE << >>],
                               BufSize, "USER", 0)
            x == [c |-> r.c, buf |-> bytes, fault |-> "none", n |-> 0]
        IN  /\ driver = Driver("raw bits", 2, << 2, << >> >>, << >>, {}, MaxBitCalls, 1, FALSE)
            /\ junk = bytes[BufSize]
            /\ codec = IF decoding THEN ac_start_decoder(x).c ELSE ac_start_encoder(r.c)
            /\ memory = r.mem
            /\ model = adaptive_model_init(2, 0)
            /\ smodel = static_model_set_distribution(2, << >>, 0)
            /\ fault = "none"
            /\ pc = "raw bits"
            /\ sent = << >>
            /\ rcvd = << >>
            /\ code_bytes = 0
            /\ sessions = 0
            /\ last_call = IF decoding THEN "ac_start_decoder" ELSE "ac_start_encoder"
            /\ args = << >>
            /\ emitted = 0
            /\ twin = NoTwin

BitFrame == << model, smodel, pc, code_bytes, sessions, twin, CallerVars >>

\* the next call, in the mode its assertion asks for
BitCall(mode) ==
    /\ Live
    /\ pc = "raw bits"
    /\ codec.mode = mode
    /\ Len(sent) + Len(rcvd) < driver.maxfree

ac_put_bit_raw ==
    /\ BitCall(1)
    /\ \E bit \in {0, 1} :
          /\ Commit(ac_put_bit(X, bit))
          /\ sent' = Append(sent, << "bit", bit, 1 >>)
          /\ args' = << bit >>
    /\ last_call' = "ac_put_bit"
    /\ UNCHANGED << rcvd, BitFrame >>

ac_put_bits_raw ==
    /\ BitCall(1)
    /\ \E number_of_bits \in BitWidths :
          \E data \in {0, Pow2(number_of_bits) - 1} :
              /\ PutBitsAccepted(data, number_of_bits)
              /\ Commit(ac_put_bits(X, data, number_of_bits))
              /\ sent' = Append(sent, << "bits", data, number_of_bits >>)
              /\ args' = << data, number_of_bits >>
    /\ last_call' = "ac_put_bits"
    /\ UNCHANGED << rcvd, BitFrame >>

ac_get_bit_raw ==
    /\ BitCall(2)
    /\ LET r == ac_get_bit(X)
       IN  /\ Commit(r.x)
           /\ rcvd' = Append(rcvd, r.ret)
    /\ last_call' = "ac_get_bit"
    /\ args' = << >>
    /\ UNCHANGED << sent, BitFrame >>

ac_get_bits_raw ==
    /\ BitCall(2)
    /\ \E number_of_bits \in BitWidths :
          /\ GetBitsAccepted(number_of_bits)
          /\ LET r == ac_get_bits(X, number_of_bits)
             IN  /\ Commit(r.x)
                 /\ rcvd' = Append(rcvd, Value(r.ret))
          /\ args' = << number_of_bits >>
    /\ last_call' = "ac_get_bits"
    /\ UNCHANGED << sent, BitFrame >>

BitNext ==
    \/ ac_put_bit_raw
    \/ ac_put_bits_raw
    \/ ac_get_bit_raw
    \/ ac_get_bits_raw

BitSpec == BitInit /\ [][BitNext]_vars

(***************************************************************************)
(* Properties                                                              *)
(***************************************************************************)
\* the kinds of operation encoded in the session
Kinds == { sent[i][1] : i \in 1 .. Len(sent) }

\* the decoder has returned, in order, the values the encoder was given
Returned ==
    /\ Len(rcvd) <= Len(sent)
    /\ \A i \in 1 .. Len(rcvd) : rcvd[i] = sent[i][2]

\* the program has read or written outside its buffer's block
Crashed == fault = "ub"

\* the session's encoder has been stopped
Stopped == pc \in {"stopped", "rewound", "dec"}

\* the block code_buffer points to is allocated
Held == memory[codec.code_buffer] # << >>

\* the first code_bytes bytes of the code buffer
Output == SubSeq(memory[codec.code_buffer], 1, code_bytes)

\* C1: a session of ac_encode_adaptive calls only, decoded with ac_decode_adaptive
\* on a reset model of the same alphabet, returns the encoded symbols in order
\* and never leaves the buffer.
C1_AdaptiveRoundTrip == Kinds \subseteq {"adaptive"} => ~ Crashed /\ Returned

\* a 17-symbol session that went through a rebuild of the model, fully decoded
C1_Witness ==
    /\ driver.N = 17 /\ Kinds = {"adaptive"}
    /\ Len(sent) = Len(LongSymbols) + MaxLarge
    /\ pc = "dec" /\ Len(rcvd) = Len(sent)

\* C2: a session of ac_encode_static calls only, with any static model that
\* static_model_set_distribution accepted, decoded with ac_decode_static on the
\* same model, returns the encoded symbols in order.
C2_StaticRoundTrip == Kinds \subseteq {"static"} => ~ Crashed /\ Returned

\* C3: a session of ac_put_bits calls only, decoded with ac_get_bits of the
\* same widths, returns the encoded data in order and never leaves the buffer.
C3_BitsRoundTrip == Kinds \subseteq {"bits"} => ~ Crashed /\ Returned

\* a fully decoded session of MaxBitsOps ac_put_bits calls, a 20-bit one first
C3_Witness ==
    /\ Kinds = {"bits"} /\ Len(sent) = MaxBitsOps /\ sent[1][3] = 20
    /\ pc = "dec" /\ Len(rcvd) = Len(sent)

\* C4: a session of any interleaving of ac_put_bit, ac_put_bits,
\* ac_encode_adaptive and ac_encode_static, decoded by the matching calls in
\* the same order, returns every encoded value in order.
C4_MixedRoundTrip == ~ Crashed /\ Returned

\* C5: after the 20 symbols of tests/test.c are encoded with a fresh adaptive
\* model of 16 symbols, ac_stop_encoder returns 9 and the code buffer starts
\* with 00 FF F7 33 28 66 E6 03 1F (for as long as the buffer is allocated).
C5_ReferenceOutput ==
    (Stopped /\ model.data_symbols = 16 /\ sent = Script("adaptive", RefSymbols, << >>))
        => code_bytes = 9 /\ (Held => Output = RefCompressed)

C5_Witness ==
    /\ pc = "stopped" /\ fault = "none" /\ model.data_symbols = 16
    /\ sent = Script("adaptive", RefSymbols, << >>)

\* C6: after the ten ac_put_bits calls of tests/test.c, ac_stop_encoder
\* returns 13.
C6_ReferenceBitsSize ==
    (Stopped /\ sent = Script("bits", RefData, RefBits)) => code_bytes = 13

C6_Witness == pc = "stopped" /\ fault = "none" /\ sent = Script("bits", RefData, RefBits)

\* a session that encoded one symbol with the uniform static model of 256 symbols
ByteSession ==
    /\ smodel.data_symbols = 256 /\ Stopped
    /\ Kinds = {"static"} /\ Len(sent) = 1

\* C7 (as the code has it): one symbol encoded with the uniform static model of
\* 256 symbols round-trips, and ac_stop_encoder returns 2.
C7_ByteLengthTwo == ByteSession => ~ Crashed /\ Returned /\ code_bytes = 2

\* C7 (as stated): ... and ac_stop_encoder returns 5 or 6.
C7_ByteLengthFiveOrSix == ByteSession => ~ Crashed /\ Returned /\ code_bytes \in {5, 6}

\* the symbol 255 encoded and decoded
C7_Witness == ByteSession /\ sent[1][2] = 255 /\ pc = "dec" /\ rcvd = << 255 >>

\* C8: when ac_stop_encoder has returned, the byte count and the bytes equal
\* those of a codec fresh from ac_init that encoded the same operations from
\* the same model state into a zeroed internal buffer, whatever the codec did
\* before and whichever buffer it writes.  (The bytes are compared for as long
\* as the buffer that holds them is allocated.)
C8_Determinism ==
    (pc = "stopped" /\ fault = "none" /\ Held)
        => /\ twin.x.fault = "none"
           /\ code_bytes = twin.x.c.ac_pointer
           /\ Output = SubSeq(twin.x.buf, 1, code_bytes)

\* the second session of a codec, stopped, writing the caller's array that
\* was full of 0xFF
C8_Witness ==
    /\ pc = "stopped" /\ fault = "none" /\ sessions = 1 /\ Len(sent) = 3
    /\ codec.code_buffer = "USER" /\ junk = 255

\* the functions by the mode their assertion asks for
EncoderCalls ==
    {"ac_put_bit", "ac_put_bits", "ac_encode_adaptive", "ac_encode_static", "ac_stop_encoder"}
DecoderCalls ==
    {"ac_get_bit", "ac_get_bits", "ac_decode_adaptive", "ac_decode_static", "ac_stop_decoder"}
IdleCalls == {"ac_start_encoder", "ac_start_decoder", "ac_set_buffer"}

\* what a call may do to the mode
ModeStep ==
    /\ codec'.mode \in {0, 1, 2}
    /\ codec'.mode # codec.mode =>
          \/ codec.mode = 0 /\ codec'.mode = 1 /\ last_call' = "ac_start_encoder"
          \/ codec.mode = 0 /\ codec'.mode = 2 /\ last_call' = "ac_start_decoder"
          \/ codec.mode = 1 /\ codec'.mode = 0 /\ last_call' = "ac_stop_encoder"
          \/ codec.mode = 2 /\ codec'.mode = 0 /\ last_call' = "ac_stop_decoder"
    /\ fault' = "none" =>
          /\ last_call' = "ac_start_encoder" => codec.mode = 0 /\ codec'.mode = 1
          /\ last_call' = "ac_start_decoder" => codec.mode = 0 /\ codec'.mode = 2
          /\ last_call' = "ac_stop_encoder" => codec.mode = 1 /\ codec'.mode = 0
          /\ last_call' = "ac_stop_decoder" => codec.mode = 2 /\ codec'.mode = 0

\* C9: the mode is 0 (Idle) after ac_init and always 0, 1 (Encoding) or 2
\* (Decoding); it changes only 0 -> 1 in ac_start_encoder, 0 -> 2 in
\* ac_start_decoder, 1 -> 0 in ac_stop_encoder and 2 -> 0 in ac_stop_decoder,
\* and these four calls make that change when they succeed.
C9_ModeStateMachine == codec.mode = 0 /\ [][ModeStep]_vars

\* MaxSessions sessions of one codec, one after another
C9_Witness == sessions = MaxSessions /\ codec.mode = 0 /\ fault = "none"

RequiredMode(f) == IF f \in EncoderCalls THEN 1 ELSE IF f \in DecoderCalls THEN 2 ELSE 0

\* a call in a mode other than the one its assertion asks for fails and
\* changes nothing; a call in that mode does not fail the mode assertion
RejectStep ==
    last_call' \in EncoderCalls \cup DecoderCalls \cup IdleCalls =>
        /\ codec.mode # RequiredMode(last_call') =>
               fault' = "mode" /\ UNCHANGED << codec, memory, model, smodel >>
        /\ codec.mode = RequiredMode(last_call') => fault' # "mode"

\* C10: the encoding calls and ac_stop_encoder fail unless the mode is 1, the
\* decoding calls and ac_stop_decoder unless it is 2, ac_start_encoder,
\* ac_start_decoder and ac_set_buffer unless it is 0, and the failed call has
\* changed neither the codec, nor the buffers, nor the models.
C10_ModeMismatchRejected == [][RejectStep]_vars

\* ac_get_bits called while encoding
C10_Witness == fault = "mode" /\ last_call = "ac_get_bits" /\ codec.mode = 1

\* a * b is below 2^32: the high limbs' product and the cross products leave
\* nothing above bit 31
MulFits(a, b) ==
    LET cross == Add32(MulLimb(a[1], b[2]), MulLimb(a[2], b[1]))
    IN  /\ a[1] = 0 \/ b[1] = 0
        /\ MulLimb(a[1], b[2])[1] = 0 /\ MulLimb(a[2], b[1])[1] = 0
        /\ cross[2] + MulLimb(a[2], b[2])[1] < W

\* a shifted left by r bytes
RECURSIVE Shl8n(_, _)
Shl8n(a, r) == IF r = 0 THEN a ELSE Shl8n(Shl8(a), r - 1)

\* the widths and data the documentation allows
LegalBits(a) == a[2] \in 1 .. 20 /\ a[1] < Pow2(a[2])

\* a call of ac_put_bits in encoder mode: illegal arguments are refused and
\* nothing is touched; for legal ones the offset data * (length >> k) fits 32
\* bits, offset + new length is at most the old length, and the codec is left
\* with that interval, renormalised
PutBitsStep ==
    (last_call' = "ac_put_bits" /\ codec.mode = 1) =>
        IF LegalBits(args')
        THEN LET len == Shr32(codec.length, args'[2])
                 x   == Mul32(U32(args'[1]), len)
                 r   == codec'.ac_pointer - codec.ac_pointer
             IN  /\ fault' # "argument"
                 /\ MulFits(U32(args'[1]), len)
                 /\ ~Lt32(codec.length, len)
                 /\ ~Gt32(x, Sub32(codec.length, len))
                 /\ fault' = "none" =>
                        /\ codec'.length = Shl8n(len, r)
                        /\ codec'.base = Shl8n(Add32(codec.base, x), r)
        ELSE fault' = "argument" /\ UNCHANGED << codec, memory, sent >>

\* a call of ac_get_bits in decoder mode is refused exactly for a width of 0 or
\* of more than 20 bits
GetBitsStep ==
    (last_call' = "ac_get_bits" /\ codec.mode = 2) =>
        IF args'[1] \in 1 .. 20
        THEN fault' # "argument"
        ELSE fault' = "argument" /\ UNCHANGED << codec, memory, rcvd >>

\* C11: ac_put_bits and ac_get_bits refuse a bit count of 0 or of 21 and more,
\* ac_put_bits refuses data of 2^k and more, and for accepted arguments the
\* product data * (length >> k) never overflows 32 bits and the new interval
\* lies inside the old one.
C11_BitsArguments == [][PutBitsStep /\ GetBitsStep]_vars

\* ac_put_bits has refused data as wide as 2^k, and ac_get_bits a width of 21
C11_Witness == last_call = "ac_put_bits" /\ fault = "argument" /\ args = << 8, 3 >>

\* the alphabet of the model a symbol-coding call is given
AlphabetOf(name) ==
    IF name = "ac_encode_adaptive" THEN model.data_symbols ELSE smodel.data_symbols

\* a call of ac_encode_adaptive or ac_encode_static in encoder mode with a symbol
\* outside the alphabet fails, and the codec, the buffer and the models are as
\* they were; a symbol inside the alphabet is not refused
SymbolStep ==
    (last_call' \in {"ac_encode_adaptive", "ac_encode_static"} /\ codec.mode = 1) =>
        IF args'[1] >= AlphabetOf(last_call')
        THEN fault' = "argument" /\ UNCHANGED << codec, memory, model, smodel, sent >>
        ELSE fault' # "argument"

\* C12: ac_encode_adaptive and ac_encode_static called with a symbol of N or
\* more fail their assertion before base, length, the output buffer,
\* symbol_count or symbols_until_update are modified.
C12_SymbolOutOfRange == [][SymbolStep]_vars

\* the symbol 2 has been refused by the encoder of a 2-symbol adaptive model
C12_Witness ==
    /\ last_call = "ac_encode_adaptive"
    /\ fault = "argument"
    /\ args = << 2 >>
    /\ model.data_symbols = 2

\* ac_stop_encoder has run to its last assertion: it was called in encoder
\* mode and every byte it stored lay inside the buffer's block
StopReturned == last_call = "ac_stop_encoder" /\ fault \in {"none", "overflow"}

\* C13: ac_stop_encoder returns ac_pointer - code_buffer, the number of bytes
\* emitted during the session; it signals the encoder overflow exactly when
\* that count exceeds buffer_size, and a count it returns normally is at most
\* buffer_size.
C13_EncoderOverflow ==
    StopReturned =>
        /\ code_bytes = codec.ac_pointer
        /\ code_bytes = emitted
        /\ fault = "overflow" <=> emitted > codec.buffer_size
        /\ fault = "none" => code_bytes <= codec.buffer_size

\* four bytes went into an internal buffer announced as SmallSize bytes, and
\* the overflow was signalled
C13_Witness ==
    /\ StopReturned
    /\ fault = "overflow"
    /\ codec.code_buffer = "INTERNAL"
    /\ codec.buffer_size = SmallSize
    /\ emitted > SmallSize

EncodingCalls == {"ac_put_bit", "ac_put_bits", "ac_encode_adaptive", "ac_encode_static"}

\* the last call was an encoding operation the assertions let through
Encoded == last_call \in EncodingCalls /\ codec.mode = 1 /\ fault # "argument"

\* C14: in encoder mode every encoding operation (ac_put_bit, ac_put_bits,
\* ac_encode_adaptive, ac_encode_static), for every legal argument and every
\* accepted model, exits with 2^24 <= length <= 2^32 - 1.
C14_IntervalInvariant ==
    Encoded =>
        /\ fault = "none"
        /\ ~ Lt32(codec.length, AC__MinLength)
        /\ ~ Gt32(codec.length, AC__MaxLength)

\* the four bytes of a uint32_t, the most significant first
Bytes(a) == << a[1] \div 256, a[1] % 256, a[2] \div 256, a[2] % 256 >>

\* the number after the one a sequence of bytes writes in base 256, in as many
\* digits (<< -1 >> if there is none)
Succ(d) ==
    LET low == { j \in 1 .. Len(d) : d[j] # 255 }
        i   == CHOOSE j \in low : \A k \in low : k <= j
    IN  IF low = {} THEN << -1 >>
        ELSE [j \in 1 .. Len(d) |-> IF j < i THEN d[j] ELSE IF j = i THEN d[j] + 1 ELSE 0]

\* digits + x in unbounded arithmetic: x is added to the last four digits
Plus(digits, x) ==
    LET n    == Len(digits) - 4
        last == << digits[n + 1] * 256 + digits[n + 2], digits[n + 3] * 256 + digits[n + 4] >>
        sum  == Add32(last, x)
        head == SubSeq(digits, 1, n)
    IN  IF Lt32(sum, last)
        THEN IF Succ(head) = << -1 >> THEN << -1 >> ELSE Succ(head) \o Bytes(sum)
        ELSE head \o Bytes(sum)

\* the low end of the interval as the codec holds it: the bytes emitted, then
\* the bytes of base
LowEnd == SubSeq(memory[codec.code_buffer], 1, codec.ac_pointer) \o Bytes(codec.base)

\* what an encoder call adds to the low end: the offset of the bit, of the
\* data or of the symbol in the interval, or the final offset of ac_stop_encoder
Offset(name, a) ==
    IF name = "ac_put_bit"
    THEN IF a[1] # 0 THEN Shr32(codec.length, 1) ELSE Zero32
    ELSE IF name = "ac_put_bits"
    THEN Mul32(U32(a[1]), Shr32(codec.length, a[2]))
    ELSE IF name = "ac_encode_adaptive"
    THEN Mul32(U32(model.distribution[a[1]]), Shr32(codec.length, DM__LengthShift))
    ELSE IF name = "ac_encode_static"
    THEN Mul32(U32(smodel.distribution[a[1]]), Shr32(codec.length, DM__LengthShift))
    ELSE IF Gt32(codec.length, Add32(AC__MinLength, AC__MinLength))
    THEN AC__MinLength
    ELSE Shr32(AC__MinLength, 1)

\* an encoder call has run to its end
EncoderStep ==
    /\ last_call' \in EncodingCalls \cup {"ac_stop_encoder"}
    /\ codec.mode = 1
    /\ fault' \in {"none", "overflow"}

\* the low end after the call is the low end before it plus the offset, with
\* one more zero digit for every byte emitted
ExactStep ==
    EncoderStep =>
        LowEnd' = Plus(LowEnd, Offset(last_call', args'))
                     \o [i \in 1 .. codec'.ac_pointer - codec.ac_pointer |-> 0]

\* low end + length is at most the top 0xFFFFFFFF of the initial interval,
\* scaled by the bytes emitted
BelowTop ==
    LET d == Plus(LowEnd, codec.length)
    IN  /\ d # << -1 >>
        /\ (\E i \in 1 .. 4 : d[i] < 255) \/ (\A i \in 5 .. Len(d) : d[i] = 0)

Rebuilt ==
    /\ last_call \in {"ac_encode_adaptive", "ac_decode_adaptive"}
    /\ model.symbols_until_update = model.update_cycle

\* C16: after every rebuild of an adaptive model (at reset and each time
\* symbols_until_update reaches 0, by the encoder and by the decoder alike)
\* distribution[0..N-1] is non-decreasing, distribution[0] = 0 and every
\* symbol_count[k] is at least 1.
C16_CdfMonotone ==
    /\ model.distribution[0] = 0
    /\ \A k \in 0 .. model.data_symbols - 2 :
           model.distribution[k] <= model.distribution[k + 1]
    /\ \A k \in 0 .. model.data_symbols - 1 : model.symbol_count[k] >= 1

\* the decoder's rebuild has halved the counts of a 17-symbol model, and a
\* count of 1 has stayed 1
C16_Witness ==
    /\ Rebuilt
    /\ last_call = "ac_decode_adaptive"
    /\ model.data_symbols = 17
    /\ model.total_count > DM__MaxCount \div 2
    /\ model.total_count + model.update_cycle <= DM__MaxCount
    /\ model.symbol_count[16] = 1

\* how many times the encoder has been given symbol s with the model
TimesEncoded(s) ==
    Cardinality({ i \in 1 .. Len(sent) : sent[i][1] = "adaptive" /\ sent[i][2] = s })

\* C17: adaptive_model_get_symbol_count(model, s) returns how many times the
\* symbol s has been encoded with the model (here: during the first session of
\* a model that has coded nothing before).
C17_SymbolCount ==
    (pc = "enc" /\ sessions = 0 /\ fault = "none") =>
        \A s \in 0 .. model.data_symbols - 1 :
            adaptive_model_get_symbol_count(model, s) = TimesEncoded(s)

\* 2^31 / n in integers that stay below 2^31
Scale(n) == 2 * (Pow2(30) \div n) + (IF 2 * (Pow2(30) % n) >= n THEN 1 ELSE 0)

\* the uniform distribution of n symbols
Uniform(n) == [k \in 0 .. n - 1 |-> (Scale(n) * k) \div W]

\* the decoder table of a distribution: entry t > 0 is the last symbol whose
\* distribution, in units of the table, lies below t
TableOf(m) ==
    [t \in 0 .. m.table_size + 1 |->
        IF t = 0 THEN 0
        ELSE Cardinality({ k \in 0 .. m.data_symbols - 1 :
                              m.distribution[k] \div Pow2(m.table_shift) < t }) - 1]

\* C18: after adaptive_model_reset, whatever was coded before, every
\* symbol_count[k] is 1, total_count is N, symbols_until_update and
\* update_cycle are (N + 6) >> 1, distribution[k] is ((2^31 / N) * k) >> 16,
\* and for N > 16 the decoder table is the one of that distribution.
C18_ResetState ==
    last_call = "adaptive_model_reset" =>
        /\ \A k \in 0 .. model.data_symbols - 1 : model.symbol_count[k] = 1
        /\ model.total_count = model.data_symbols
        /\ model.update_cycle = (model.data_symbols + 6) \div 2
        /\ model.symbols_until_update = (model.data_symbols + 6) \div 2
        /\ model.distribution = Uniform(model.data_symbols)
        /\ model.data_symbols > 16 => model.decoder_table = TableOf(model)

\* a 17-symbol model has been reset
C18_Witness ==
    /\ last_call = "adaptive_model_reset"
    /\ model.data_symbols = 17
    /\ model.table_size = 8

\* C19: after adaptive_model_set_alphabet(model, M), for any size and any
\* coding history of the model before, the model's state (N, last_symbol,
\* table_size, table_shift, the counts, total_count, update_cycle,
\* symbols_until_update, the distribution, the decoder table) is that of a
\* model fresh from adaptive_model_init(M), whatever the allocator left in the
\* arrays of either.
C19_AlphabetChange ==
    last_call = "adaptive_model_set_alphabet" =>
        \A j \in JunkBytes : model = adaptive_model_init(args[1], j)

\* a model has been given an alphabet of 17 symbols, with a decoder table
C19_Witness ==
    /\ last_call = "adaptive_model_set_alphabet"
    /\ args = << 17 >>
    /\ model.data_symbols = 17
    /\ model.table_size = 8

\* C20: ac_set_buffer(codec, max_code_bytes, NULL) makes the codec use an
\* internally allocated buffer of max_code_bytes + 16 bytes and sets
\* buffer_size to max_code_bytes, after any earlier calls of ac_set_buffer.
C20_InternalBuffer ==
    (last_call = "ac_set_buffer" /\ fault = "none" /\ args[2] = "NULL") =>
        /\ ac_get_buffer(codec) = "INTERNAL"
        /\ codec.new_buffer = "INTERNAL"
        /\ Len(memory["INTERNAL"]) = args[1] + 16
        /\ codec.buffer_size = args[1]

\* C21: code_buffer never refers to freed memory (after any sequence of
\* ac_set_buffer calls and sessions it is NULL, the caller's array or the
\* codec's live allocation), and the codec never frees the caller's array.
\* The pointer ac_get_buffer returns for an internal buffer, passed back to
\* ac_set_buffer, is stored in code_buffer and its block is freed.
C21_BufferOwnership ==
    /\ memory["USER"] # << >>
    /\ codec.code_buffer # "NULL" => memory[codec.code_buffer] # << >>

\* the calls that encode or decode, and ac_stop_encoder
CodingCalls ==
    EncodingCalls \cup {"ac_stop_encoder", "ac_get_bit", "ac_get_bits",
                        "ac_decode_adaptive", "ac_decode_static"}

\* the loop of a renormalisation that shifts a length of 0: it never reaches
\* AC__MinLength, the call goes on until it leaves the buffer's block
Endless == fault = "ub" /\ codec.length = Zero32

\* C22: every coding call, for every legal argument and every accepted model
\* (static models with probabilities equal to 0 included), completes: the
\* renormalisation loops, the carry walk and the bisections all exit.
C22_CallsComplete == last_call \in CodingCalls => ~ Endless

\* what a decoding call is about to do with the codec's value
Looked == DecodeInterval(codec, IF last_call' = "ac_decode_static" THEN smodel ELSE model)

\* a decoding call on any bytes: the look-up stays inside decoder_table and
\* distribution and the symbol is one of the alphabet
DecodeStep ==
    last_call' \in {"ac_decode_adaptive", "ac_decode_static"}
        => /\ Looked.fault = "none"
           /\ Looked.s < (IF last_call' = "ac_decode_static" THEN smodel ELSE model).data_symbols
           /\ Shr32(codec.length, DM__LengthShift) # Zero32

\* ac_get_bits on any bytes divides by a length that is not 0
BitsStep ==
    last_call' = "ac_get_bits" => Shr32(codec.length, args'[1]) # Zero32

\* C23: whatever bytes the decoder is started on, every ac_decode_adaptive and
\* ac_decode_static call returns a symbol of 0 .. N-1, reads decoder_table at
\* indices 0 .. table_size + 1 and distribution at 0 .. N-1 only and never
\* divides by zero, and ac_get_bits never divides by zero.
C23_CorruptInput == [][DecodeStep /\ BitsStep]_vars

\* the last call coded a symbol with the adaptive model
Coded == last_call \in {"ac_encode_adaptive", "ac_decode_adaptive"}

\* the model the other side has after coding the same symbol from the same state
OtherSide == CountSymbol(model, args'[1], last_call' = "ac_decode_adaptive")

\* C24: from the same model state the rebuild by the encoder and the rebuild
\* by the decoder give the same symbol_count, total_count, distribution,
\* update_cycle and symbols_until_update; the encoder's (and, for N <= 16,
\* the decoder's) leaves decoder_table unchanged, so after each coded symbol the
\* two sides' models are equal in everything but the table.
C24_FromEncoder ==
    [][last_call' \in {"ac_encode_adaptive", "ac_decode_adaptive"} =>
          /\ [model' EXCEPT !.decoder_table = << >>]
                 = [OtherSide EXCEPT !.decoder_table = << >>]
          /\ (last_call' = "ac_encode_adaptive" \/ model.data_symbols <= 16)
                 => model'.decoder_table = model.decoder_table]_vars

\* the encoder has rebuilt the distribution of a 17-symbol model and the
\* table is no longer the one of the distribution
C24_Witness ==
    /\ Rebuilt
    /\ last_call = "ac_encode_adaptive"
    /\ model.data_symbols = 17
    /\ model.decoder_table # TableOf(model)

\* the decoder table was built for the distribution the model has now
Built ==
    /\ model.table_size # 0
    /\ \/ last_call \in {"adaptive_model_reset", "adaptive_model_set_alphabet"}
       \/ Rebuilt /\ last_call = "ac_decode_adaptive"

\* distribution[k], with the implicit distribution[N] = 2^15
Dist(m, k) == IF k = m.data_symbols THEN DM__MaxCount ELSE m.distribution[k]

\* C25: after every build of the table of an adaptive model (N > 16, at reset
\* and at the decoder's rebuilds), for every t in 0 .. table_size,
\* distribution[decoder_table[t]] <= t * 2^table_shift and
\* distribution[decoder_table[t] + 1] >= t * 2^table_shift.
C25_TableBrackets ==
    Built =>
        \A t \in 0 .. model.table_size :
            /\ model.decoder_table[t] \in 0 .. model.data_symbols - 1
            /\ Dist(model, model.decoder_table[t]) <= t * Pow2(model.table_shift)
            /\ Dist(model, model.decoder_table[t] + 1) >= t * Pow2(model.table_shift)

\* C25 (as stated): ... and distribution[decoder_table[t] + 1] > t * 2^table_shift.
C25_TableBracketsStrict ==
    Built =>
        \A t \in 0 .. model.table_size :
            /\ Dist(model, model.decoder_table[t]) <= t * Pow2(model.table_shift)
            /\ Dist(model, model.decoder_table[t] + 1) > t * Pow2(model.table_shift)

\* the decoder has rebuilt the table of a 17-symbol model for a distribution
\* that is no longer the uniform one
C25_Witness ==
    /\ Built /\ Rebuilt
    /\ model.data_symbols = 17
    /\ model.distribution # Uniform(17)
    /\ model.decoder_table = TableOf(model)

\* the values of dv = value / (length >> 15) the searches are compared on: the
\* ends of every symbol's interval and of every table cell
DvInputs(m) ==
    ({ m.distribution[k] : k \in 0 .. m.data_symbols - 1 }
       \cup { m.distribution[k] - 1 : k \in 0 .. m.data_symbols - 1 }
       \cup { t * Pow2(m.table_shift) : t \in 0 .. m.table_size }
       \cup { t * Pow2(m.table_shift) - 1 : t \in 0 .. m.table_size })
    \cap (0 .. DM__MaxCount - 1)

\* the values of length >> 15 of a decoder between calls: the least, the greatest
LenInputs == {512, 131071}

\* the symbols whose interval of the distribution holds dv
SymbolsOf(m, dv) ==
    { s \in 0 .. m.data_symbols - 1 : Dist(m, s) <= dv /\ dv < Dist(m, s + 1) }

\* the symbol the search without table returns for a value whose quotient by
\* len is dv (rem is the remainder)
ProductSymbol(m, dv, len, rem) ==
    ProductSearch(m, U32(len), Add32(Mul32(U32(dv), U32(len)), U32(rem)),
                  m.data_symbols \div 2,
                  [s |-> 0, n |-> m.data_symbols, x |-> Zero32, y |-> AC__MaxLength]).s

\* C26: for a table model whose table was built for its distribution and for
\* dv in 0 .. 2^15 - 1, with t = dv >> table_shift, exactly one symbol s has
\* distribution[s] <= dv < distribution[s+1], it lies in
\* [decoder_table[t], decoder_table[t+1] + 1), the bisection between these
\* bounds returns it, and so does the search without table over 0 .. N.
C26_TableSearch ==
    Built =>
        \A dv \in DvInputs(model) :
            LET t  == dv \div Pow2(model.table_shift)
                lo == model.decoder_table[t]
                hi == model.decoder_table[t + 1] + 1
            IN  /\ Cardinality(SymbolsOf(model, dv)) = 1
                /\ \A s \in SymbolsOf(model, dv) :
                       /\ lo <= s /\ s < hi
                       /\ TableSearch(model, U32(dv), lo, hi) = s
                       /\ \A len \in LenInputs :
                              /\ ProductSymbol(model, dv, len, 0) = s
                              /\ ProductSymbol(model, dv, len, len - 1) = s

\* the decoder has rebuilt the table of a 17-symbol model, and a cell of the
\* table is shared by three symbols or more, which the bisection tells apart
C26_Witness ==
    /\ Built /\ Rebuilt
    /\ model.data_symbols = 17
    /\ \E t \in 0 .. model.table_size - 1 :
           model.decoder_table[t + 1] + 1 > model.decoder_table[t] + 2

\* the greatest update_cycle of a model of n symbols, (n + 6) << 3
MaxCycle(n) == (n + 6) * 8

\* between operations the countdown and the cycle are in range
Scheduled ==
    /\ 1 <= model.symbols_until_update
    /\ model.symbols_until_update <= model.update_cycle
    /\ (model.data_symbols + 6) \div 2 <= model.update_cycle
    /\ model.update_cycle <= MaxCycle(model.data_symbols)

\* coding a symbol rebuilds the distribution exactly when it is the
\* update_cycle-th since the last rebuild or reset, i.e. when the countdown is
\* at 1, and then sets the cycle to min((5 * old) >> 2, (N + 6) << 3)
CountdownStep ==
    last_call' \in {"ac_encode_adaptive", "ac_decode_adaptive"} =>
        IF model.update_cycle - model.symbols_until_update = model.update_cycle - 1
        THEN /\ model'.update_cycle
                    = (IF (5 * model.update_cycle) \div 4 < MaxCycle(model.data_symbols)
                       THEN (5 * model.update_cycle) \div 4
                       ELSE MaxCycle(model.data_symbols))
             /\ model'.symbols_until_update = model'.update_cycle
             /\ model'.total_count # model.total_count
        ELSE /\ model'.update_cycle = model.update_cycle
             /\ model'.symbols_until_update = model.symbols_until_update - 1
             /\ model'.total_count = model.total_count
             /\ model'.distribution = model.distribution

\* C27: between operations 1 <= symbols_until_update <= update_cycle and
\* (N + 6) >> 1 <= update_cycle <= (N + 6) << 3; a rebuild happens exactly when
\* the update_cycle-th symbol since the last rebuild or reset is coded, and
\* sets update_cycle to min((5 * old) >> 2, (N + 6) << 3) and
\* symbols_until_update to the same value: the countdown never passes 0.
C27_UpdateSchedule == [] Scheduled /\ [][CountdownStep]_vars

\* a rebuild of a 17-symbol model has cut the new cycle down to (17 + 6) << 3
C27_Witness ==
    /\ Rebuilt
    /\ model.data_symbols = 17
    /\ model.update_cycle = MaxCycle(17)
    /\ model.symbols_until_update = MaxCycle(17)

\* from one rebuild to the next the cycle never decreases, and it increases
\* for as long as it is below (N + 6) << 3
CadenceStep ==
    /\ model'.update_cycle >= model.update_cycle
    /\ (model.symbols_until_update = 1 /\ model.update_cycle < MaxCycle(model.data_symbols))
           => model'.update_cycle > model.update_cycle

\* C28: while symbols keep being coded and the model is not reset,
\* update_cycle never decreases from one rebuild to the next, increases strictly
\* until it is (N + 6) << 3, and eventually is (N + 6) << 3 for ever.
C28_CadenceCap ==
    /\ [][CadenceStep]_vars
    /\ <>[](model.update_cycle = MaxCycle(model.data_symbols))

\* a 17-symbol model has grown its cycle from (17 + 6) >> 1 to (17 + 6) << 3
\* and rebuilt at that cycle
C28_Witness ==
    /\ pc = "cadence"
    /\ Rebuilt
    /\ model.data_symbols = 17
    /\ model.update_cycle = MaxCycle(17)
    /\ model.total_count >= 17 + MaxCoded

\* the sum of the counts of the model
CountSum == SumCounts(model.symbol_count, 0, model.data_symbols)

\* the distribution has just been rebuilt: by a coded symbol, a reset or a
\* change of alphabet
JustBuilt ==
    Rebuilt \/ last_call \in {"adaptive_model_reset", "adaptive_model_set_alphabet"}

\* C29: after every rebuild total_count <= 2^15 and total_count is the sum of
\* symbol_count; between rebuilds the sum is total_count plus the symbols coded
\* since, update_cycle - symbols_until_update; so scale = 2^31 / total_count
\* never divides by zero and scale * sum, for sum up to total_count, fits in
\* 32 bits.
C29_TotalCount ==
    /\ CountSum = model.total_count + (model.update_cycle - model.symbols_until_update)
    /\ JustBuilt =>
           /\ model.total_count = CountSum
           /\ model.total_count >= 1
           /\ model.total_count <= DM__MaxCount
           /\ MulFits(Div32(<< 32768, 0 >>, U32(model.total_count)), U32(model.total_count))

\* the encoder's rebuild has halved the counts of a 17-symbol model whose
\* total had passed 2^15
C29_Witness ==
    /\ Rebuilt
    /\ last_call = "ac_encode_adaptive"
    /\ model.data_symbols = 17
    /\ 2 * model.total_count > DM__MaxCount
    /\ 2 * model.total_count <= DM__MaxCount + MaxCycle(17) + 17

\* the lengths an encoder has between calls that are tried: the least, one
\* with all the low bits set, the greatest
LengthInputs == { AC__MinLength, << 256, 32767 >>, AC__MaxLength }

\* an encoder with the given length at the start of a buffer of four bytes
EncoderAt(length) ==
    [c |-> [ac_init(Zero32, 0) EXCEPT !.mode = 1, !.base = Zero32, !.length = length,
                                      !.ac_pointer = 0, !.code_buffer = "USER",
                                      !.buffer_size = 4],
     buf |-> << 0, 0, 0, 0 >>, fault |-> "none", n |-> 0]

\* C30: after every rebuild of an adaptive model distribution is strictly
\* increasing and distribution[N-1] < 2^15, so every symbol has a non-empty
\* interval: encoding any symbol from a length >= 2^24 gives a length >= 2^9
\* and the renormalisation stores at most 2 bytes.
C30_NonEmptyIntervals ==
    JustBuilt =>
        /\ \A k \in 0 .. model.data_symbols - 1 : Dist(model, k) < Dist(model, k + 1)
        /\ \A s \in 0 .. model.data_symbols - 1 :
               \A length \in LengthInputs :
                   /\ ~ Lt32(EncodeInterval(EncoderAt(length).c, s, model).length, << 0, 512 >>)
                   /\ ac_encode_static(EncoderAt(length), s, model).fault = "none"
                   /\ ac_encode_static(EncoderAt(length), s, model).n <= 2

\* a rebuild has left a symbol of a 17-symbol model the least interval, of
\* width 1, which takes two bytes of renormalisation from the least length
C30_Witness ==
    /\ Rebuilt
    /\ model.data_symbols = 17
    /\ \E k \in 0 .. 16 :
          /\ Dist(model, k + 1) - Dist(model, k) = 1
          /\ ac_encode_static(EncoderAt(AC__MinLength), k, model).n = 2

\* ac_stop_encoder has run to its last assertion from an encoder's state
StopStep ==
    /\ last_call' = "ac_stop_encoder"
    /\ codec.mode = 1
    /\ fault' \in {"none", "overflow"}

\* the bytes emitted before the call, as the call leaves them
Before == SubSeq(memory[codec.code_buffer], 1, codec.ac_pointer)

\* what ac_stop_encoder does to the buffer: the offset lies below length, the
\* bytes already emitted take the carry of base + offset (if there is one) and
\* are followed by the top one or two bytes of base + offset
TrailingStep ==
    StopStep =>
        LET wide   == Gt32(codec.length, Add32(AC__MinLength, AC__MinLength))
            k      == IF wide THEN 1 ELSE 2
            offset == IF wide THEN AC__MinLength ELSE Shr32(AC__MinLength, 1)
            sum    == Add32(codec.base, offset)
        IN  /\ Lt32(offset, codec.length)
            /\ emitted' = emitted + k
            /\ code_bytes' = codec.ac_pointer + k
            /\ SubSeq(memory'[codec.code_buffer], 1, codec.ac_pointer)
                   = IF Lt32(sum, codec.base) THEN Succ(Before) ELSE Before
            /\ SubSeq(memory'[codec.code_buffer], codec.ac_pointer + 1, codec.ac_pointer + k)
                   = SubSeq(Bytes(sum), 1, k)

\* C31: ac_stop_encoder emits exactly one trailing byte when length is above
\* 2 * AC__MinLength and exactly two otherwise: the top bytes of base plus the
\* offset (AC__MinLength, resp. AC__MinLength >> 1), after the carry of that
\* addition has gone into the bytes emitted before; the offset is below
\* length, so that base + offset lies inside [base, base + length).
C31_TrailingBytes == [][TrailingStep]_vars

\* after 3 bits of 5 and 20 bits of 0 two bytes were out and length was 2^25
\* or less: ac_stop_encoder added two bytes, and its offset carried into the
\* bytes before
C31_Witness ==
    /\ last_call = "ac_stop_encoder" /\ fault = "none"
    /\ sent = << << "bits", 5, 3 >>, << "bits", 0, 20 >> >>
    /\ code_bytes = 4
    /\ Output = << 160, 0, 0, 123 >>

C33_ReadsInsideStream ==
    (pc = "dec" /\ codec.mode = 2 /\ fault = "none" /\ codec.buffer_size = code_bytes)
        => codec.ac_pointer < codec.buffer_size

\* C34: while the codec is encoding, every byte the renormalisation has stored
\* and every byte a carry has changed lies at an index below buffer_size:
\* ac_pointer - code_buffer <= buffer_size in every state of a session.
C34_WritesInsideBuffer ==
    (codec.mode = 1 /\ fault = "none") => codec.ac_pointer <= codec.buffer_size

\* the decoder's value lies in one of the two halves ac_get_bit tells apart
TwoHalves == Lt32(codec.value, Add32(Shr32(codec.length, 1), Shr32(codec.length, 1)))

\* the codec, its buffer and the value returned are those that call r leaves
SameAs(r, ret) ==
    /\ codec' = r.c
    /\ memory'[codec.code_buffer] = r.buf
    /\ fault' = r.fault
    /\ ret # << >> => rcvd' = Append(rcvd, ret[1])

\* a call for one bit does what the other function does from the same state;
\* for the decoder when pre holds
OneBitStep(pre) ==
    /\ (last_call' = "ac_put_bit" /\ codec.mode = 1 /\ args'[1] \in {0, 1})
           => SameAs(ac_put_bits(X, args'[1], 1), << >>)
    /\ (last_call' = "ac_put_bits" /\ codec.mode = 1 /\ args'[2] = 1 /\ fault' # "argument")
           => SameAs(ac_put_bit(X, args'[1]), << >>)
    /\ (last_call' = "ac_get_bit" /\ codec.mode = 2 /\ pre)
           => SameAs(ac_get_bits(X, 1).x, << Value(ac_get_bits(X, 1).ret) >>)
    /\ (last_call' = "ac_get_bits" /\ codec.mode = 2 /\ args' = << 1 >> /\ pre)
           => SameAs(ac_get_bit(X).x, << ac_get_bit(X).ret >>)

\* C35 (as the code has it): from the same state ac_put_bit(b), b in {0, 1},
\* leaves the base, length, ac_pointer and buffer of ac_put_bits(b, 1); and
\* ac_get_bit returns the value and leaves the value, length and ac_pointer of
\* ac_get_bits(1) from every decoder state with value < 2 * (length >> 1).
C35_SingleBit == [][OneBitStep(TwoHalves)]_vars

\* C35 (as stated): ... and ac_get_bit does so from every decoder state.
C35_SingleBitAlways == [][OneBitStep(TRUE)]_vars

\* ac_get_bit has returned 1 from the state that ac_start_decoder leaves on
\* the bytes 7F FF FF FF, where value = length >> 1
C35_Witness ==
    /\ pc = "raw bits" /\ last_call = "ac_get_bit" /\ fault = "none"
    /\ memory["USER"][1] = 127
    /\ rcvd = << 1 >>
    /\ codec.value = Zero32

\* the encoder of the session after its first i calls
EncoderAfter(i) == EncodeRun(Begin(driver.N), sent, smodel, 1, i).x

\* the model the next decoding call is given, if it looks a table up
NextTable ==
    IF Expected[1] = "adaptive" /\ model.decoder_table # << >> THEN << model >>
    ELSE IF Expected[1] = "static" /\ smodel.decoder_table # << >> THEN << smodel >>
    ELSE << >>

\* dv = value / (length >> DM__LengthShift), as the next decoding call computes it
NextDv == ToInt(Div32(codec.value, Shr32(codec.length, DM__LengthShift)))

\* the decoder after i calls and the encoder after i calls: the same length,
\* as many bytes read after the first four as bytes written; value is below
\* length; and dv and the table index of the next look-up are below the bounds
LockStep(dv_bound, t_bound(_)) ==
    pc = "tail" =>
        LET enc == EncoderAfter(Len(rcvd))
        IN  /\ fault = "none" /\ enc.fault = "none"
            /\ codec.length = enc.c.length
            /\ codec.ac_pointer - 3 = enc.c.ac_pointer
            /\ Lt32(codec.value, codec.length)
            /\ \A m \in { NextTable[j] : j \in DOMAIN NextTable } :
                  /\ NextDv < dv_bound
                  /\ NextDv \div Pow2(m.table_shift) < t_bound(m)

AtMostSize(m) == m.table_size + 1
BelowSize(m) == m.table_size

DecodingCalls == {"ac_get_bit", "ac_get_bits", "ac_decode_adaptive", "ac_decode_static"}

\* ac_start_decoder leaves length = 2^32 - 1, the first four bytes in value,
\* the most significant first, and ac_pointer on the fourth
StartStep ==
    (last_call' = "ac_start_decoder" /\ codec.mode = 0 /\ fault' = "none") =>
        /\ codec'.length = AC__MaxLength
        /\ Bytes(codec'.value) = SubSeq(memory[codec.code_buffer], 1, 4)
        /\ codec'.ac_pointer = 3

\* a decoding call that made k renormalisation steps has moved ac_pointer k
\* bytes on, and the k bytes behind the old ac_pointer are, in their order,
\* the low bytes of value
ConsumeStep ==
    (last_call' \in DecodingCalls /\ codec.mode = 2 /\ fault' = "none") =>
        LET k == codec'.ac_pointer - codec.ac_pointer
        IN  /\ k \in 0 .. 3
            /\ SubSeq(Bytes(codec'.value), 5 - k, 4)
                   = SubSeq(memory[codec.code_buffer], codec.ac_pointer + 2,
                            codec.ac_pointer + 1 + k)

\* no call of a decoder changes a byte of a buffer
ReadOnlyStep == (codec.mode = 2 \/ codec'.mode = 2) => memory' = memory

\* C37: ac_start_decoder sets length = 2^32 - 1, value to the big-endian word
\* of the bytes 0 .. 3 and ac_pointer to index 3; every renormalisation step
\* then advances ac_pointer by one and shifts the byte it points to into
\* value, so that the bytes 4, 5, 6, ... are consumed in order, each once; the
\* decoder never writes to the buffer.
C37_ConsumptionOrder == [][StartStep /\ ConsumeStep /\ ReadOnlyStep]_vars

\* of two calls of ac_get_bits for 20 bits the first has consumed two bytes
\* and the second three
C37_Witness ==
    /\ pc = "dec" /\ fault = "none" /\ last_call = "ac_get_bits"
    /\ Len(sent) >= 2
    /\ sent[1] = << "bits", 1048575, 20 >> /\ sent[2] = << "bits", 0, 20 >>
    /\ rcvd = << 1048575, 0 >>
    /\ codec.ac_pointer = 8

\* the call's addition to base overflows 32 bits: ac_propagate_carry runs
Carried ==
    /\ last_call' \in EncodingCalls \cup {"ac_stop_encoder"}
    /\ codec.mode = 1
    /\ fault' \notin {"mode", "argument"}
    /\ Lt32(Add32(codec.base, Offset(last_call', args')), codec.base)

\* when the carry runs the session has emitted a byte that is not 0xFF, and
\* the call leaves the bytes behind those of the session as they were
WalkStep ==
    Carried =>
        /\ emitted = codec.ac_pointer
        /\ emitted > 0
        /\ \E i \in 1 .. emitted : memory[codec.code_buffer][i] # 255
        /\ \A i \in DOMAIN memory[codec.code_buffer] :
              i > codec'.ac_pointer =>
                  memory'[codec.code_buffer][i] = memory[codec.code_buffer][i]

====
